---------------------------- MODULE Spec2Model ----------------------------
(***************************************************************************)
(* The signal engine of gainzalgo (src/services/marketService.ts,          *)
(* calculateSignals and the indicator library it calls) and the part of    *)
(* src/App.tsx that feeds it: history load, live tick, recomputation.      *)
(*                                                                         *)
(* Numbers.  Candle prices and volumes are integers ("ticks").  The        *)
(* engine's IEEE doubles are modelled as fixed-point integers: every       *)
(* indicator value is an integer number of 1/FP ticks (RSI, DI, DX, ADX    *)
(* an integer number of 1/FP percent) and every division of the source is  *)
(* the floor division \div.  The values a double can take and an integer   *)
(* cannot (NaN, +Infinity, -Infinity) arise in the source only in RSI and  *)
(* ADX; those two series hold "extended" numbers, see Fin/NaN below.       *)
(*                                                                         *)
(* Arrays.  A JavaScript array a of length n is the sequence <<a[0], ...,  *)
(* a[n-1]>>; At(a, i) is a[i].                                             *)
(***************************************************************************)
EXTENDS Integers, Sequences, FiniteSets, TLC

VARIABLES
  data,         \* App state `data`: the candle array handed to the engine
  config,       \* App state `config` (AlgoConfig)
  timeframe,    \* App state `timeframe` (passed as timeframeId)
  result,       \* outcome of the latest calculateSignals call
  prevData,     \* the candle array of the call before the latest one
  prevResult,   \* the outcome of the call before the latest one
  calls,        \* number of calculateSignals calls made so far
  ticks,        \* number of live ticks applied (of price requests started,
                \* where the requests are modelled) so far
  params,       \* the parameters the latest call derived from the sensitivity
  symbol,       \* App state `symbol` (its id)
  autoTradeEnabled,   \* App state tradeSettings.autoTradeEnabled
  isConnected,        \* App state mt5Account.isConnected
  executedSignalIds,  \* the ref executedSignalIds (a Set of signal ids)
  placedOrders,       \* the calls of mt5Service.placeOrder made so far
  inflight,     \* the requests awaiting their response: fetchHistory of
                \* loadData and fetchLatestTick of updateTick
  dataSymbol,   \* the symbol whose history `data` was loaded from ("" if none)
  dataTimeframe,  \* the timeframe that history was requested for
  appliedTicks, \* the real prices updateTick has written into `data` so far
  changes       \* number of changes the user has made so far

appVars == <<symbol, autoTradeEnabled, isConnected, executedSignalIds,
             placedOrders, inflight, dataSymbol, dataTimeframe, appliedTicks,
             changes>>

vars == <<data, config, timeframe, result, prevData, prevResult, calls, ticks,
          params, symbol, autoTradeEnabled, isConnected, executedSignalIds,
          placedOrders, inflight, dataSymbol, dataTimeframe, appliedTicks,
          changes>>

----------------------------------------------------------------------------
(* Bounds of the model *)

\* fixed-point resolution: indicator values are integers in units of 1/FP
FP == 100

\* live ticks applied after the history load
MaxTicks == 2

\* changes the user makes (symbol, timeframe, sensitivity, auto-trade switch,
\* account connection) in the application-level specifications
MaxChanges == 2

\* price requests of updateTick started in the application-level
\* specifications
MaxRequests == 1

----------------------------------------------------------------------------
(* Helpers *)

At(arr, i) == arr[i + 1]

Max2(a, b) == IF a >= b THEN a ELSE b
Min2(a, b) == IF a <= b THEN a ELSE b
Abs(a) == IF a < 0 THEN -a ELSE a

Zeros(n) == [i \in 1..n |-> 0]

\* `for (let i = lo; i <= hi; i++) acc = Body(acc, i)`, evaluated by halving
\* the range so that the evaluation depth stays logarithmic.
RECURSIVE For(_, _, _, _)
For(Body(_, _), acc, lo, hi) ==
  IF lo > hi THEN acc
  ELSE IF lo = hi THEN Body(acc, lo)
  ELSE LET mid == (lo + hi) \div 2
           left == For(Body, acc, lo, mid)
       IN IF left = left THEN For(Body, left, mid + 1, hi) ELSE left

\* Math.sqrt on a non-negative fixed-point square: the floor of the root
RECURSIVE SqrtBetween(_, _, _)
SqrtBetween(x, lo, hi) ==
  IF lo >= hi THEN lo
  ELSE LET mid == (lo + hi + 1) \div 2
       IN IF mid * mid <= x THEN SqrtBetween(x, mid, hi)
                            ELSE SqrtBetween(x, lo, mid - 1)

Sqrt(x) == SqrtBetween(x, 0, Min2(x, 46340))

\* Extended numbers: <<v>> is the finite value v, <<>> is NaN, and the two
\* infinities are pairs.  A comparison with NaN is false, as in IEEE 754.
Fin(v) == <<v>>
NaN == <<>>
PosInf == <<1, 0>>
NegInf == <<-1, 0>>
IsFin(x) == Len(x) = 1

\* x < c and x > c for an extended x and a finite c
XLt(x, c) == IF x = NaN \/ x = PosInf THEN FALSE
             ELSE IF x = NegInf THEN TRUE ELSE x[1] < c
XGt(x, c) == IF x = NaN \/ x = NegInf THEN FALSE
             ELSE IF x = PosInf THEN TRUE ELSE x[1] > c

----------------------------------------------------------------------------
(* Indicator library *)

\* data[i].close throws a TypeError when i is not an index of data
EMAThrows(data_, period) == period > Len(data_)

\* Exponential Moving Average
calculateEMA(data_, period) ==
  LET sum == For(LAMBDA s, i: s + At(data_, i).close, 0, 0, period - 1)
      seeded == [i \in 1..Len(data_) |->
                   IF i = period THEN (sum * FP) \div period ELSE 0]
  IN For(LAMBDA ema, i:
           [ema EXCEPT ![i + 1] =
              (At(data_, i).close * FP * 2 + At(ema, i - 1) * (period - 1))
                 \div (period + 1)],
         seeded, period, Len(data_) - 1)

\* Standard Deviation for Bollinger Bands
calculateStdDev(data_, period, index, average) ==
  IF index < period - 1 THEN 0
  ELSE LET sumDiffSq ==
             For(LAMBDA s, i:
                   LET diff == At(data_, index - i).close * FP - average
                   IN s + diff * diff,
                 0, 0, period - 1)
       IN Sqrt(sumDiffSq \div period)

\* true range of candle i (i >= 1)
TrueRange(data_, i) ==
  LET hl == At(data_, i).high - At(data_, i).low
      hc == Abs(At(data_, i).high - At(data_, i - 1).close)
      lc == Abs(At(data_, i).low - At(data_, i - 1).close)
  IN Max2(hl, Max2(hc, lc))

\* a variant that averages the true range over the whole series instead of
\* smoothing it candle by candle: every entry then depends on later candles
calculateATRWholeSeries(data_, period) ==
  LET n == Len(data_)
      sumTR == For(LAMBDA s, i: s + TrueRange(data_, i), 0, 1, n - 1)
  IN [i \in 1..n |-> IF i < period THEN 0 ELSE (sumTR * FP) \div n]

\* Average True Range (ATR)
calculateATR(data_, period) ==
  LET n == Len(data_)
      tr == [i \in 1..n |-> IF i = 1 THEN 0 ELSE TrueRange(data_, i - 1)]
      sumTR == For(LAMBDA s, i: s + At(tr, i), 0, 0, period - 1)
      seeded == [i \in 1..n |-> IF i = period THEN (sumTR * FP) \div period ELSE 0]
  IN For(LAMBDA atr, i:
           [atr EXCEPT ![i + 1] =
              (At(atr, i - 1) * (period - 1) + At(tr, i) * FP) \div period],
         seeded, period, n - 1)

\* data[i].close is read for i = 1..period
RSIThrows(data_, period) == period >= Len(data_)

\* 100 - (100 / (1 + (avgGain / avgLoss))) in IEEE arithmetic, avgGain >= 0:
\* x/0 is +Infinity for x > 0 and NaN for x = 0; 100/(+0) is +Infinity
RsiValue(avgGain, avgLoss) ==
  IF avgLoss = 0
    THEN (IF avgGain = 0 THEN NaN ELSE Fin(100 * FP))
    ELSE IF avgGain + avgLoss = 0
      THEN NegInf
      ELSE Fin(100 * FP - ((100 * FP * avgLoss) \div (avgGain + avgLoss)))

\* Wilder's Smoothed RSI
calculateRSIArray(data_, period) ==
  LET n == Len(data_)
      Change(i) == At(data_, i).close - At(data_, i - 1).close
      gains == For(LAMBDA g, i: IF Change(i) > 0 THEN g + Change(i) ELSE g,
                   0, 1, period)
      losses == For(LAMBDA l, i: IF Change(i) > 0 THEN l ELSE l - Abs(Change(i)),
                    0, 1, period)
      avgGain0 == (gains * FP) \div period
      avgLoss0 == (losses * FP) \div period
      seeded == [avgGain |-> avgGain0, avgLoss |-> avgLoss0,
                 rsiArray |-> [i \in 1..n |->
                     IF i = period + 1 THEN RsiValue(avgGain0, avgLoss0)
                                       ELSE Fin(0)]]
      Step(st, i) ==
        LET gain == IF Change(i) > 0 THEN Change(i) ELSE 0
            loss == IF Change(i) < 0 THEN Abs(Change(i)) ELSE 0
            avgGain == (st.avgGain * (period - 1) + gain * FP) \div period
            avgLoss == (st.avgLoss * (period - 1) + loss * FP) \div period
        IN [avgGain |-> avgGain, avgLoss |-> avgLoss,
            rsiArray |-> [st.rsiArray EXCEPT ![i + 1] =
                IF avgLoss = 0 THEN Fin(100 * FP)
                               ELSE RsiValue(avgGain, avgLoss)]]
  IN For(Step, seeded, period + 1, n - 1).rsiArray

\* the avgLoss of calculateRSIArray behind each entry of rsiArray: the mean of
\* the first `period` changes at index `period` (negative or zero, as
\* `losses -= Math.abs(change)` makes it), then Wilder's smoothing
RSIAvgLoss(data_, period) ==
  LET n == Len(data_)
      Change(i) == At(data_, i).close - At(data_, i - 1).close
      losses == For(LAMBDA l, i: IF Change(i) > 0 THEN l ELSE l - Abs(Change(i)),
                    0, 1, period)
      seeded == [i \in 1..n |-> IF i = period + 1 THEN (losses * FP) \div period ELSE 0]
  IN For(LAMBDA avgLoss, i:
           [avgLoss EXCEPT ![i + 1] =
              (At(avgLoss, i - 1) * (period - 1)
                 + (IF Change(i) < 0 THEN Abs(Change(i)) ELSE 0) * FP) \div period],
         seeded, period + 1, n - 1)

\* Wilder's smoothing of calculateADX: the sum of x[1..period] at index
\* period, then s[i] = s[i-1] - s[i-1]/period + x[i]
SmoothWilder(x, period) ==
  LET n == Len(x)
      sum == For(LAMBDA s, i: s + At(x, i), 0, 1, period)
      seeded == [i \in 1..n |-> IF i = period + 1 THEN sum * FP ELSE 0]
  IN For(LAMBDA sm, i:
           [sm EXCEPT ![i + 1] =
              At(sm, i - 1) - (At(sm, i - 1) \div period) + At(x, i) * FP],
         seeded, period + 1, n - 1)

\* DX of one index from the smoothed sums: 0/0 is NaN, and NaN + NaN === 0
\* is false, so a zero smoothed true range gives NaN
DxValue(sTR, sPlus, sMinus) ==
  IF sTR = 0 THEN NaN
  ELSE LET plusDI == (sPlus * 100 * FP) \div sTR
           minusDI == (sMinus * 100 * FP) \div sTR
       IN IF plusDI + minusDI = 0 THEN Fin(0)
          ELSE Fin((Abs(plusDI - minusDI) * 100 * FP) \div (plusDI + minusDI))

\* Average Directional Index (ADX)
calculateADX(data_, period) ==
  LET n == Len(data_)
  IN IF n < period * 2 THEN [i \in 1..n |-> Fin(0)]
     ELSE
       LET Up(i) == At(data_, i).high - At(data_, i - 1).high
           Down(i) == At(data_, i - 1).low - At(data_, i).low
           tr == [i \in 1..n |-> IF i = 1 THEN 0 ELSE TrueRange(data_, i - 1)]
           plusDM == [i \in 1..n |->
                        IF i > 1 /\ Up(i - 1) > Down(i - 1) /\ Up(i - 1) > 0
                          THEN Up(i - 1) ELSE 0]
           minusDM == [i \in 1..n |->
                        IF i > 1 /\ Down(i - 1) > Up(i - 1) /\ Down(i - 1) > 0
                          THEN Down(i - 1) ELSE 0]
           smoothTR == SmoothWilder(tr, period)
           smoothPlusDM == SmoothWilder(plusDM, period)
           smoothMinusDM == SmoothWilder(minusDM, period)
           dx == [i \in 1..n |->
                    IF i - 1 < period THEN Fin(0)
                    ELSE DxValue(smoothTR[i], smoothPlusDM[i], smoothMinusDM[i])]
           sumDX == For(LAMBDA s, i:
                          IF s = NaN \/ At(dx, i) = NaN THEN NaN
                          ELSE Fin(s[1] + At(dx, i)[1]),
                        Fin(0), period, period * 2 - 1)
           seeded == [i \in 1..n |->
                        IF i = period * 2
                          THEN (IF sumDX = NaN THEN NaN
                                ELSE Fin(sumDX[1] \div period))
                          ELSE Fin(0)]
       IN For(LAMBDA adx, i:
                [adx EXCEPT ![i + 1] =
                   IF At(adx, i - 1) = NaN \/ At(dx, i) = NaN THEN NaN
                   ELSE Fin((At(adx, i - 1)[1] * (period - 1) + At(dx, i)[1])
                              \div period)],
              seeded, period * 2, n - 1)

\* Weighted Moving Average (WMA) of a numeric series
calculateWMA(series, period) ==
  LET weights == (period * (period + 1)) \div 2
  IN [i \in 1..Len(series) |->
        IF i - 1 < period - 1 THEN 0
        ELSE For(LAMBDA sum, j: sum + At(series, (i - 1) - (period - 1) + j) * (j + 1),
                 0, 0, period - 1) \div weights]

\* Hull Moving Average (HMA)
calculateHMA(data_, period) ==
  LET n == Len(data_)
      closes == [i \in 1..n |-> data_[i].close * FP]
      wmaHalfLength == period \div 2
      wmaHalfRaw == calculateWMA(closes, wmaHalfLength)
      wmaHalf == [i \in 1..n |-> wmaHalfRaw[i] * 2]
      wmaFull == calculateWMA(closes, period)
      diff == [i \in 1..n |-> wmaHalf[i] - wmaFull[i]]
      sqrtPeriod == Sqrt(period)
  IN calculateWMA(diff, sqrtPeriod)

\* a variant without the band filter: each band is the basic band of its candle
calculateSuperTrendUnfiltered(data_, atr, factor1000, period) ==
  LET n == Len(data_)
      init == [superTrend |-> [i \in 1..n |->
                                 IF i - 1 < period THEN data_[i].close * FP ELSE 0],
               direction |-> [i \in 1..n |-> 1],
               upperBand |-> Zeros(n),
               lowerBand |-> Zeros(n)]
      Step(st, i) ==
        LET hl2 == ((At(data_, i).high + At(data_, i).low) * FP) \div 2
            upper == hl2 + ((factor1000 * At(atr, i)) \div 1000)
            lower == hl2 - ((factor1000 * At(atr, i)) \div 1000)
            close == At(data_, i).close * FP
            prevDir == At(st.direction, i - 1)
            currDir == IF prevDir = -1 /\ close > At(st.upperBand, i - 1) THEN 1
                       ELSE IF prevDir = 1 /\ close < At(st.lowerBand, i - 1) THEN -1
                       ELSE prevDir
        IN [superTrend |-> [st.superTrend EXCEPT ![i + 1] =
                              IF currDir = 1 THEN lower ELSE upper],
            direction |-> [st.direction EXCEPT ![i + 1] = currDir],
            upperBand |-> [st.upperBand EXCEPT ![i + 1] = upper],
            lowerBand |-> [st.lowerBand EXCEPT ![i + 1] = lower]]
  IN For(Step, init, period, n - 1)

\* SuperTrend Indicator; factor1000 is factor * 1000
calculateSuperTrend(data_, atr, factor1000, period) ==
  LET n == Len(data_)
      init == [superTrend |-> [i \in 1..n |->
                                 IF i - 1 < period THEN data_[i].close * FP ELSE 0],
               direction |-> [i \in 1..n |-> 1],
               upperBand |-> Zeros(n),
               lowerBand |-> Zeros(n)]
      Step(st, i) ==
        LET hl2 == ((At(data_, i).high + At(data_, i).low) * FP) \div 2
            currentAtr == At(atr, i)
            currUpper == hl2 + ((factor1000 * currentAtr) \div 1000)
            currLower == hl2 - ((factor1000 * currentAtr) \div 1000)
            prevUpper == At(st.upperBand, i - 1)
            prevLower == At(st.lowerBand, i - 1)
            prevClose == At(data_, i - 1).close * FP
            close == At(data_, i).close * FP
            upper == IF currUpper < prevUpper \/ prevClose > prevUpper
                       THEN currUpper ELSE prevUpper
            lower == IF currLower > prevLower \/ prevClose < prevLower
                       THEN currLower ELSE prevLower
            prevDir == At(st.direction, i - 1)
            currDir == IF prevDir = -1 /\ close > prevUpper THEN 1
                       ELSE IF prevDir = 1 /\ close < prevLower THEN -1
                       ELSE prevDir
        IN [superTrend |-> [st.superTrend EXCEPT ![i + 1] =
                              IF currDir = 1 THEN lower ELSE upper],
            direction |-> [st.direction EXCEPT ![i + 1] = currDir],
            upperBand |-> [st.upperBand EXCEPT ![i + 1] = upper],
            lowerBand |-> [st.lowerBand EXCEPT ![i + 1] = lower]]
  IN For(Step, init, period, n - 1)

\* MACD (Moving Average Convergence Divergence)
calculateMACD(data_, fastPeriod, slowPeriod, signalPeriod) ==
  LET n == Len(data_)
      fastEMA == calculateEMA(data_, fastPeriod)
      slowEMA == calculateEMA(data_, slowPeriod)
      macdLine == [i \in 1..n |-> fastEMA[i] - slowEMA[i]]
      sum == For(LAMBDA s, i: s + At(macdLine, i), 0, 0, signalPeriod - 1)
      seeded == [i \in 1..n |-> IF i = signalPeriod THEN sum \div signalPeriod ELSE 0]
      signalLine == For(LAMBDA sig, i:
                          [sig EXCEPT ![i + 1] =
                             (At(macdLine, i) * 2 + At(sig, i - 1) * (signalPeriod - 1))
                                \div (signalPeriod + 1)],
                        seeded, signalPeriod, n - 1)
  IN [macdLine |-> macdLine, signalLine |-> signalLine,
      histogram |-> [i \in 1..n |-> macdLine[i] - signalLine[i]]]

----------------------------------------------------------------------------
(* Warm-up.  Every indicator array is created filled with 0 and gets its    *)
(* first computed entry at its warm-up index; the entries before it keep    *)
(* the placeholder 0.  The operators below give the warm-up index of each   *)
(* array and the indices at which its consumers read it, for n candles.     *)

\* emaArray[period - 1] = sum / period
EMAWarmup(period) == period - 1

\* atr[period - 1] = sumTR / period
ATRWarmup(period) == period - 1

\* adx[period * 2 - 1] = sumDX / period
ADXWarmup(period) == period * 2 - 1

\* `for (let i = period - 1; i < data.length; i++)`
WMAWarmup(period) == period - 1

\* calculateMACD reads fastEMA[i] and slowEMA[i] for i = 0 .. n - 1
MACDReads(n) == 0..(n - 1)

\* calculateHMA reads wmaHalf[i] and wmaFull[i] for i = 0 .. n - 1
HMAReads(n) == 0..(n - 1)

\* calculateSuperTrend reads atr[i] for i = period .. n - 1
SuperTrendReads(n, period) == period..(n - 1)

----------------------------------------------------------------------------
(* Signal logic: calculateSignals *)

\* `if (data.length < 50) return []`
MinCandles == 50

\* a variant whose loop starts where the length guard ends
startIndexAtGuard == MinCandles

\* `const startIndex = 200`; Need 200 for EMA200
startIndex == 200

\* Math.round(num / den) for den > 0: the nearest integer, halves upwards
Round(num, den) == (2 * num + den) \div (2 * den)

\* Math.max(1, Math.min(100, config.sensitivity))
Sensitivity(cfg) == Max2(1, Min2(100, cfg.sensitivity))

\* Math.max(2, Math.round(20 - sensitivity * 0.18)), times 4 on the 1s chart
CooldownCandles(sensitivity, timeframeId) ==
  LET cooldownCandles == Max2(2, Round(2000 - sensitivity * 18, 100))
  IN IF timeframeId = "1s" THEN cooldownCandles * 4 ELSE cooldownCandles

\* a variant that truncates where the code rounds (Math.floor for Math.round)
MomentumLookbackFloored(sensitivity) == Max2(5, (3000 - sensitivity * 25) \div 100)

\* Math.max(5, Math.round(30 - sensitivity * 0.25))
MomentumLookback(sensitivity) == Max2(5, Round(3000 - sensitivity * 25, 100))

\* a variant whose lower threshold does not grow with the sensitivity
RsiLowerInsensitive(sensitivity) == 20 * FP

\* 20 + sensitivity * 0.25 and 80 - sensitivity * 0.25, in 1/FP percent
RsiLower(sensitivity) == 20 * FP + (sensitivity * 25 * FP) \div 100
RsiUpper(sensitivity) == 80 * FP - (sensitivity * 25 * FP) \div 100

\* 4.0 - sensitivity * 0.025, times 1000
StFactor1000(sensitivity) == 4000 - sensitivity * 25

\* Math.max(7, Math.round(14 - sensitivity * 0.07))
StPeriod(sensitivity) == Max2(7, Round(1400 - sensitivity * 7, 100))

\* 1. Sensitivity Logic: what a call derives from config.sensitivity and
\* timeframeId before it looks at a candle
Parameters(cfg, timeframeId) ==
  LET sensitivity == Sensitivity(cfg)
  IN [cooldownCandles |-> CooldownCandles(sensitivity, timeframeId),
      momentumLookback |-> MomentumLookback(sensitivity),
      rsiLower |-> RsiLower(sensitivity),
      rsiUpper |-> RsiUpper(sensitivity),
      stFactor1000 |-> StFactor1000(sensitivity),
      stPeriod |-> StPeriod(sensitivity)]

\* no call has got past the length guard yet
NoParameters ==
  [cooldownCandles |-> 0, momentumLookback |-> 0, rsiLower |-> 0,
   rsiUpper |-> 0, stFactor1000 |-> 0, stPeriod |-> 0]

\* the parameters after a call on data_: a call that returns at the length
\* guard derives none
ParametersAfter(old, data_, cfg, timeframeId) ==
  IF Len(data_) < MinCandles THEN old ELSE Parameters(cfg, timeframeId)

\* `data.length > 1 ? data[1].time - data[0].time : 60000`
CandleDuration(data_) ==
  IF Len(data_) > 1 THEN At(data_, 1).time - At(data_, 0).time ELSE 60000

\* adx.toFixed(1): the value in tenths, as text
ToFixed1(x) ==
  IF x = NaN THEN <<"NaN">>
  ELSE LET tenths == Round(x[1] * 10, FP)
       IN <<ToString(tenths \div 10), ".", ToString(tenths % 10)>>

\* the strategy's candidate at index i: [isSignal, type, reason]
NoCandidate == [isSignal |-> FALSE, type |-> "LONG", reason |-> <<>>]
Candidate(type, reason) == [isSignal |-> TRUE, type |-> type, reason |-> reason]

\* a variant that looks at the HMA crossover before the SuperTrend flip
TrendCandidateHmaFirst(data_, direction, hma9, i) ==
  LET current == At(data_, i)
      prev == At(data_, i - 1)
      stDir == At(direction, i)
      hma == At(hma9, i)
      prevHma == At(hma9, i - 1)
      stFlipUp == At(direction, i - 1) = -1 /\ stDir = 1
      stFlipDown == At(direction, i - 1) = 1 /\ stDir = -1
      hmaCrossUp == prev.close * FP < prevHma /\ current.close * FP > hma /\ stDir = 1
      hmaCrossDown == prev.close * FP > prevHma /\ current.close * FP < hma /\ stDir = -1
  IN IF hmaCrossUp THEN Candidate("LONG", <<"HMA Trend Entry">>)
     ELSE IF hmaCrossDown THEN Candidate("SHORT", <<"HMA Trend Entry">>)
     ELSE IF stFlipUp THEN Candidate("LONG", <<"SuperTrend Buy Flip">>)
     ELSE IF stFlipDown THEN Candidate("SHORT", <<"SuperTrend Sell Flip">>)
     ELSE NoCandidate

\* Strategy 1: Smart Trend (SuperTrend flip, else HMA crossover)
TrendCandidate(data_, direction, hma9, i) ==
  LET current == At(data_, i)
      prev == At(data_, i - 1)
      stDir == At(direction, i)
      hma == At(hma9, i)
      prevHma == At(hma9, i - 1)
      stFlipUp == At(direction, i - 1) = -1 /\ stDir = 1
      stFlipDown == At(direction, i - 1) = 1 /\ stDir = -1
      hmaCrossUp == prev.close * FP < prevHma /\ current.close * FP > hma /\ stDir = 1
      hmaCrossDown == prev.close * FP > prevHma /\ current.close * FP < hma /\ stDir = -1
  IN IF stFlipUp THEN Candidate("LONG", <<"SuperTrend Buy Flip">>)
     ELSE IF stFlipDown THEN Candidate("SHORT", <<"SuperTrend Sell Flip">>)
     ELSE IF hmaCrossUp THEN Candidate("LONG", <<"HMA Trend Entry">>)
     ELSE IF hmaCrossDown THEN Candidate("SHORT", <<"HMA Trend Entry">>)
     ELSE NoCandidate

\* Strategy 2: Reversal (Bollinger Band Rejection)
ReversalCandidate(data_, ema21, rsiArray, sensitivity, i) ==
  LET current == At(data_, i)
      prev == At(data_, i - 1)
      stdDev == calculateStdDev(data_, 20, i, At(ema21, i))
      upperBB == At(ema21, i) + stdDev * 2
      lowerBB == At(ema21, i) - stdDev * 2
      rsi == At(rsiArray, i)
      rsiLower == RsiLower(sensitivity)
      rsiUpper == RsiUpper(sensitivity)
  IN IF /\ prev.low * FP < lowerBB
        /\ current.close * FP > lowerBB
        /\ XLt(rsi, rsiLower)
        /\ current.close > current.open
       THEN Candidate("LONG", <<"BB Rejection (RSI < ", ToString(Round(rsiLower, FP)), ")">>)
     ELSE IF /\ prev.high * FP > upperBB
             /\ current.close * FP < upperBB
             /\ XGt(rsi, rsiUpper)
             /\ current.close < current.open
       THEN Candidate("SHORT", <<"BB Rejection (RSI > ", ToString(Round(rsiUpper, FP)), ")">>)
     ELSE NoCandidate

\* a variant whose lookback window starts at the current candle (j = 0)
MomentumCandidateInclusive(data_, momentumLookback, i) ==
  LET current == At(data_, i)
      highestHigh == For(LAMBDA h, j: Max2(h, At(data_, i - j).high),
                         0, 0, momentumLookback - 1)
      lowestLow == For(LAMBDA l, j: Min2(l, At(data_, i - j).low),
                       At(data_, i).low, 1, momentumLookback - 1)
  IN IF current.close > highestHigh
       THEN Candidate("LONG", <<ToString(momentumLookback), "-Period Breakout">>)
     ELSE IF current.close < lowestLow
       THEN Candidate("SHORT", <<ToString(momentumLookback), "-Period Breakdown">>)
     ELSE NoCandidate

\* a variant that also breaks out on a close equal to the window's extreme
MomentumCandidateOrEqual(data_, momentumLookback, i) ==
  LET current == At(data_, i)
      highestHigh == For(LAMBDA h, j: Max2(h, At(data_, i - j).high),
                         0, 1, momentumLookback)
      lowestLow == For(LAMBDA l, j: Min2(l, At(data_, i - j).low),
                       At(data_, i - 1).low, 2, momentumLookback)
  IN IF current.close >= highestHigh
       THEN Candidate("LONG", <<ToString(momentumLookback), "-Period Breakout">>)
     ELSE IF current.close <= lowestLow
       THEN Candidate("SHORT", <<ToString(momentumLookback), "-Period Breakdown">>)
     ELSE NoCandidate

\* Strategy 3: Momentum (Donchian Breakout); Math.min(Infinity, x) is x
MomentumCandidate(data_, momentumLookback, i) ==
  LET current == At(data_, i)
      highestHigh == For(LAMBDA h, j: Max2(h, At(data_, i - j).high),
                         0, 1, momentumLookback)
      lowestLow == For(LAMBDA l, j: Min2(l, At(data_, i - j).low),
                       At(data_, i - 1).low, 2, momentumLookback)
  IN IF current.close > highestHigh
       THEN Candidate("LONG", <<ToString(momentumLookback), "-Period Breakout">>)
     ELSE IF current.close < lowestLow
       THEN Candidate("SHORT", <<ToString(momentumLookback), "-Period Breakdown">>)
     ELSE NoCandidate

\* a variant with the two histogram tests the wrong way round
MacdVetoSignsSwapped(cfg, type, hist) ==
  cfg.useMacdFilter /\ ((type = "LONG" /\ hist > 0) \/ (type = "SHORT" /\ hist < 0))

\* 1. MACD Filter: TRUE when the candidate is dropped (`continue`)
MacdVeto(cfg, type, hist) ==
  cfg.useMacdFilter /\ ((type = "LONG" /\ hist < 0) \/ (type = "SHORT" /\ hist > 0))

\* 2. EMA 200 Major Trend Filter
EmaTrendVeto(cfg, type, close, ema200) ==
  /\ cfg.useEmaTrendFilter
  /\ LET above200 == close > ema200
     IN (type = "LONG" /\ ~above200) \/ (type = "SHORT" /\ above200)

\* 3. ADX Filter Check; adxThreshold is in percent
AdxVeto(cfg, adx) == cfg.useAdxFilter /\ XLt(adx, cfg.adxThreshold * FP)

\* the reason after the filters a surviving candidate went through
FilteredReason(cfg, reason, adx) ==
  reason
    \o (IF cfg.useMacdFilter THEN <<" (MACD)">> ELSE <<>>)
    \o (IF cfg.useEmaTrendFilter THEN <<" (Trend)">> ELSE <<>>)
    \o (IF cfg.useAdxFilter THEN <<" (ADX ">> \o ToFixed1(adx) \o <<")">> ELSE <<>>)

\* a variant whose RSI penalty is 35 instead of 10
RsiFactorHeavyPenalty(type, rsi) ==
  IF type = "LONG"
    THEN (IF XLt(rsi, 35 * FP) THEN 15 ELSE IF XGt(rsi, 60 * FP) THEN -35 ELSE 0)
    ELSE (IF XGt(rsi, 65 * FP) THEN 15 ELSE IF XLt(rsi, 40 * FP) THEN -35 ELSE 0)

\* 1. RSI Factor
RsiFactor(type, rsi) ==
  IF type = "LONG"
    THEN (IF XLt(rsi, 35 * FP) THEN 15 ELSE IF XGt(rsi, 60 * FP) THEN -10 ELSE 0)
    ELSE (IF XGt(rsi, 65 * FP) THEN 15 ELSE IF XLt(rsi, 40 * FP) THEN -10 ELSE 0)

\* 2. Volume Factor: avgVol is sumVol / 10
VolumeFactor(vol, sumVol) ==
  IF vol * 20 > sumVol * 3 THEN 15 ELSE IF vol * 10 > sumVol THEN 5 ELSE 0

\* a variant that also wants the close beyond EMA21
TrendFactorFullOrder(type, close, ema21, ema50) ==
  LET isTrendLong == close > ema21 /\ ema21 > ema50
      isTrendShort == close < ema21 /\ ema21 < ema50
  IN IF (type = "LONG" /\ isTrendLong) \/ (type = "SHORT" /\ isTrendShort)
       THEN 10 ELSE 0

\* 3. Trend Alignment Factor
TrendFactor(type, close, ema21, ema50) ==
  LET isTrendLong == close > ema50 /\ ema21 > ema50
      isTrendShort == close < ema50 /\ ema21 < ema50
  IN IF (type = "LONG" /\ isTrendLong) \/ (type = "SHORT" /\ isTrendShort)
       THEN 10 ELSE 0

\* 4. ADX Boost
AdxBoost(adx) == IF XGt(adx, 30 * FP) THEN 10 ELSE 0

\* a variant that leaves the score as the factors summed it
ClampConfidenceMissing(confScore) == confScore

\* Math.max(30, Math.min(98, confScore))
ClampConfidence(confScore) == Max2(30, Min2(98, confScore))

\* a variant that only asks for a later candle than the last signal's
CooldownPassedAnyGap(signals, time, minTime) ==
  \/ signals = <<>>
  \/ time - signals[Len(signals)].candleTime > 0

\* a variant that wants more than the minimum time (`>` for `>=`)
CooldownPassedStrictly(signals, time, minTime) ==
  \/ signals = <<>>
  \/ time - signals[Len(signals)].candleTime > minTime

\* `timeSinceLast >= minTime`, timeSinceLast being Infinity with no signal yet
CooldownPassed(signals, time, minTime) ==
  \/ signals = <<>>
  \/ time - signals[Len(signals)].candleTime >= minTime

\* a variant that numbers the signals by the call that made them
SignalIdPerCall(current) == <<"sig-", calls>>

\* `sig-${current.time}`
SignalId(current) == <<"sig-", current.time>>

\* a variant with the stop and the target on the wrong sides of the entry
NewSignalSidesSwapped(current, type, atr, riskReward, reason, confScore) ==
  LET volatilityBuffer == atr * 2
      rewardTarget == volatilityBuffer * riskReward
      close == current.close * FP
  IN [id |-> SignalId(current),
      candleTime |-> current.time,
      type |-> type,
      entryPrice |-> close * 10,
      stopLoss |-> IF type = "LONG" THEN (close + volatilityBuffer) * 10
                                    ELSE (close - volatilityBuffer) * 10,
      takeProfit |-> IF type = "LONG" THEN close * 10 - rewardTarget
                                      ELSE close * 10 + rewardTarget,
      status |-> "ACTIVE",
      reason |-> reason,
      confidence |-> confScore]

\* a variant whose volatility buffer is one ATR instead of two
NewSignalSingleAtr(current, type, atr, riskReward, reason, confScore) ==
  LET volatilityBuffer == atr
      rewardTarget == volatilityBuffer * riskReward
      close == current.close * FP
  IN [id |-> SignalId(current),
      candleTime |-> current.time,
      type |-> type,
      entryPrice |-> close * 10,
      stopLoss |-> IF type = "LONG" THEN (close - volatilityBuffer) * 10
                                    ELSE (close + volatilityBuffer) * 10,
      takeProfit |-> IF type = "LONG" THEN close * 10 + rewardTarget
                                      ELSE close * 10 - rewardTarget,
      status |-> "ACTIVE",
      reason |-> reason,
      confidence |-> confScore]

\* the pushed signal; prices are in 1/(10 * FP) ticks and riskReward in
\* tenths, so that volatilityBuffer * config.riskReward is exact
NewSignal(current, type, atr, riskReward, reason, confScore) ==
  LET volatilityBuffer == atr * 2
      rewardTarget == volatilityBuffer * riskReward
      close == current.close * FP
  IN [id |-> SignalId(current),
      candleTime |-> current.time,
      type |-> type,
      entryPrice |-> close * 10,
      stopLoss |-> IF type = "LONG" THEN (close - volatilityBuffer) * 10
                                    ELSE (close + volatilityBuffer) * 10,
      takeProfit |-> IF type = "LONG" THEN close * 10 + rewardTarget
                                      ELSE close * 10 - rewardTarget,
      status |-> "ACTIVE",
      reason |-> reason,
      confidence |-> confScore]

\* a variant that puts the new signal in front (unshift)
PushFront(signals, signal) == <<signal>> \o signals

\* signals.push(signal)
Push(signals, signal) == Append(signals, signal)

\* a call that returned `signals`, and a call that threw a TypeError
Returned(signals) == [status |-> "returned", signals |-> signals]
Threw == [status |-> "threw", signals |-> <<>>]

\* the indicator pre-calculation reads data[i].close beyond the array
PrecalculationThrows(data_, sensitivity) ==
  \/ EMAThrows(data_, 9) \/ EMAThrows(data_, 21)
  \/ EMAThrows(data_, 50) \/ EMAThrows(data_, 200)
  \/ RSIThrows(data_, 14)
  \/ EMAThrows(data_, 12) \/ EMAThrows(data_, 26)
  \/ StPeriod(sensitivity) > Len(data_)

\* a variant whose EMA-200 filter turns a candidate against the major trend
\* round instead of dropping it
SignalStepTrendFollowing(signals, i, data_, cfg, timeframeId, ema21, ema50, ema200, rsiArray, atrArray, adxArray, macdData, hma9, stData) ==
  LET sensitivity == Sensitivity(cfg)
      minTime == CooldownCandles(sensitivity, timeframeId) * CandleDuration(data_)
      current == At(data_, i)
      cand == IF cfg.strategy = "TREND"
                THEN TrendCandidate(data_, stData.direction, hma9, i)
              ELSE IF cfg.strategy = "REVERSAL"
                THEN ReversalCandidate(data_, ema21, rsiArray, sensitivity, i)
              ELSE IF cfg.strategy = "MOMENTUM"
                THEN MomentumCandidate(data_, MomentumLookback(sensitivity), i)
              ELSE NoCandidate
      type == IF EmaTrendVeto(cfg, cand.type, current.close * FP, At(ema200, i))
                THEN (IF cand.type = "LONG" THEN "SHORT" ELSE "LONG")
                ELSE cand.type
      adx == At(adxArray, i)
      sumVol == For(LAMBDA v, k: v + At(data_, i - k).volume, 0, 1, 10)
      confScore ==
        ClampConfidence(60
          + RsiFactor(type, At(rsiArray, i))
          + VolumeFactor(current.volume, sumVol)
          + TrendFactor(type, current.close * FP, At(ema21, i), At(ema50, i))
          + AdxBoost(adx))
  IN IF ~cand.isSignal THEN signals
     ELSE IF MacdVeto(cfg, cand.type, At(macdData.histogram, i)) THEN signals
     ELSE IF AdxVeto(cfg, adx) THEN signals
     ELSE IF CooldownPassed(signals, current.time, minTime)
       THEN Push(signals,
              NewSignal(current, type, At(atrArray, i), cfg.riskReward,
                        FilteredReason(cfg, cand.reason, adx), confScore))
     ELSE signals

\* one iteration of `for (let i = startIndex; i < data.length; i++)`: the
\* signals after candle i, given the pre-calculated indicator arrays
SignalStep(signals, i, data_, cfg, timeframeId, ema21, ema50, ema200, rsiArray, atrArray, adxArray, macdData, hma9, stData) ==
  LET sensitivity == Sensitivity(cfg)
      minTime == CooldownCandles(sensitivity, timeframeId) * CandleDuration(data_)
      current == At(data_, i)
      cand == IF cfg.strategy = "TREND"
                THEN TrendCandidate(data_, stData.direction, hma9, i)
              ELSE IF cfg.strategy = "REVERSAL"
                THEN ReversalCandidate(data_, ema21, rsiArray, sensitivity, i)
              ELSE IF cfg.strategy = "MOMENTUM"
                THEN MomentumCandidate(data_, MomentumLookback(sensitivity), i)
              ELSE NoCandidate
      adx == At(adxArray, i)
      sumVol == For(LAMBDA v, k: v + At(data_, i - k).volume, 0, 1, 10)
      confScore ==
        ClampConfidence(60
          + RsiFactor(cand.type, At(rsiArray, i))
          + VolumeFactor(current.volume, sumVol)
          + TrendFactor(cand.type, current.close * FP, At(ema21, i), At(ema50, i))
          + AdxBoost(adx))
  IN IF ~cand.isSignal THEN signals
     ELSE IF MacdVeto(cfg, cand.type, At(macdData.histogram, i)) THEN signals
     ELSE IF EmaTrendVeto(cfg, cand.type, current.close * FP, At(ema200, i))
       THEN signals
     ELSE IF AdxVeto(cfg, adx) THEN signals
     ELSE IF CooldownPassed(signals, current.time, minTime)
       THEN Push(signals,
              NewSignal(current, cand.type, At(atrArray, i), cfg.riskReward,
                        FilteredReason(cfg, cand.reason, adx), confScore))
     ELSE signals

\* the indices at which the loop body reads the indicator arrays: i, and
\* i - 1 (hma9, stData.direction), for i = startIndex .. n - 1
LoopReads(n) == UNION {{i - 1, i} : i \in startIndex..(n - 1)}

\* the loop over the candles from startIndex on
SignalLoop(data_, cfg, timeframeId, ema21, ema50, ema200, rsiArray, atrArray, adxArray, macdData, hma9, stData) ==
  For(LAMBDA signals, i:
        SignalStep(signals, i, data_, cfg, timeframeId, ema21, ema50, ema200,
                   rsiArray, atrArray, adxArray, macdData, hma9, stData),
      <<>>, startIndex, Len(data_) - 1)

calculateSignals(data_, cfg, timeframeId) ==
  IF Len(data_) < MinCandles THEN Returned(<<>>)
  ELSE IF PrecalculationThrows(data_, Sensitivity(cfg)) THEN Threw
  ELSE
    LET atrArray == calculateATR(data_, 14)
    IN Returned(SignalLoop(data_, cfg, timeframeId,
                  calculateEMA(data_, 21),
                  calculateEMA(data_, 50),
                  calculateEMA(data_, 200),
                  calculateRSIArray(data_, 14),
                  atrArray,
                  calculateADX(data_, 14),
                  calculateMACD(data_, 12, 26, 9),
                  calculateHMA(data_, 9),
                  calculateSuperTrend(data_, atrArray,
                    StFactor1000(Sensitivity(cfg)), StPeriod(Sensitivity(cfg)))))

----------------------------------------------------------------------------
(* Inputs: the candle histories the data source may deliver.  A history is  *)
(* a price path sampled once per candle: candle i opens at Price(i) and     *)
(* closes at Price(i + 1), with wicks beyond its body.                      *)

\* a triangle wave: up `step` per candle for `half` candles, then down
Tri(i, half, step) ==
  LET ph == i % (2 * half)
  IN step * (IF ph < half THEN ph ELSE 2 * half - ph)

\* a quiet market with a sharp dip (or, every other block, a sharp spike);
\* the "shock" path of Price is a long rise that candle 210 ends with a plunge;
\* the "spike" path is flat but for one candle (205) with a long upper wick
DipOffset(i) ==
  LET ph == i % 12
      sgn == IF (i \div 12) % 2 = 0 THEN 1 ELSE -1
  IN sgn * (IF ph < 9 THEN 0 ELSE IF ph = 9 THEN -8 ELSE IF ph = 10 THEN -6 ELSE -3)

Price(shape, i) ==
  CASE shape \in {"flat", "spike"} -> 1000
    [] shape = "rise" -> 1000 + 2 * i
    [] shape = "fall" -> 2000 - 2 * i
    [] shape = "wave" -> 1000 + Tri(i, 15, 4)
    [] shape = "chop" -> 1000 + Tri(i, 6, 7) + Tri(i, 45, 1)
    [] shape = "dip"  -> 1000 + DipOffset(i) + (i % 2)
    [] shape = "shock" -> IF i <= 210 THEN 1000 + 2 * i
                          ELSE 1409 + 2 * (i - 211)

LowWick(shape, i) ==
  CASE shape \in {"flat", "rise", "fall", "shock"} -> 0
    [] shape = "wave" -> 2
    [] shape = "chop" -> 3
    [] shape = "dip"  -> IF i % 12 = 8 /\ (i \div 12) % 2 = 0 THEN 6 ELSE 1
    [] shape = "spike" -> 0

HighWick(shape, i) ==
  CASE shape \in {"flat", "rise", "fall", "shock"} -> 0
    [] shape = "wave" -> 2
    [] shape = "chop" -> 3
    [] shape = "dip"  -> IF i % 12 = 8 /\ (i \div 12) % 2 = 1 THEN 6 ELSE 1
    [] shape = "spike" -> IF i = 205 THEN 40 ELSE 0

Volume(shape, i) ==
  IF shape = "flat" THEN 3
  ELSE 1000 + (IF i % 7 = 0 THEN 2000 ELSE 0) + 100 * (i % 3)

\* the duration of one candle of the timeframe, in ms (stepMs of
\* generateHistoryFallback)
TimeframeMs(tf) == IF tf = "1s" THEN 1000 ELSE 60000

HistoryCandle(shape, tf, i) ==
  LET open == Price(shape, i)
      close == Price(shape, i + 1)
  IN [time |-> i * TimeframeMs(tf),
      open |-> open,
      high |-> Max2(open, close) + HighWick(shape, i),
      low |-> Min2(open, close) - LowWick(shape, i),
      close |-> close,
      volume |-> Volume(shape, i)]

History(shape, tf, len) == [k \in 1..len |-> HistoryCandle(shape, tf, k - 1)]

\* the histories fetchHistory may return: <<shape, length>>
Histories ==
  ({"flat"} \X {0, 1, 49, 50, 199, 200, 201})
    \cup ({"rise"} \X {199, 300})
    \cup ({"fall", "wave", "chop", "dip", "shock", "spike"} \X {230})

Config(strategy, sensitivity, riskReward, filters) ==
  [strategy |-> strategy,
   sensitivity |-> sensitivity,
   riskReward |-> riskReward,            \* in tenths: 20 is 2.0
   useMacdFilter |-> filters,
   useEmaTrendFilter |-> filters,
   useAdxFilter |-> filters,
   adxThreshold |-> 25,
   useRSIFilter |-> filters,
   useVolumeFilter |-> filters]

Strategies == {"TREND", "REVERSAL", "MOMENTUM"}

\* the configurations and timeframes the application is started with
Scenarios ==
  {<<Config(st, 50, 20, FALSE), "1m">> : st \in Strategies}
    \cup {<<Config(st, 100, 5, TRUE), "1m">> : st \in Strategies}
    \cup {<<Config(st, 100, 20, FALSE), "1s">> : st \in Strategies}
    \cup {<<[Config("MOMENTUM", 50, 20, FALSE)
               EXCEPT !.useRSIFilter = TRUE, !.useVolumeFilter = TRUE], "1m">>,
          <<[Config("MOMENTUM", 50, 20, FALSE)
               EXCEPT !.useMacdFilter = TRUE], "1m">>}

----------------------------------------------------------------------------
(* The application around the engine (src/App.tsx) *)

NotCalled == [status |-> "none", signals |-> <<>>]

\* the state of App.tsx around the engine as the component is constructed:
\* the first symbol of SUPPORTED_SYMBOLS, DEFAULT_TRADE_SETTINGS (auto-trade
\* off), no account, nothing executed; with auto-trade off the auto-trade
\* effect returns at once, and the actions of Spec leave this part alone
AppAtRest ==
  /\ symbol = "BTCUSD"
  /\ autoTradeEnabled = FALSE
  /\ isConnected = FALSE
  /\ executedSignalIds = {}
  /\ placedOrders = <<>>
  /\ inflight = {}
  /\ dataSymbol = ""
  /\ dataTimeframe = ""
  /\ appliedTicks = <<>>
  /\ changes = 0

Init ==
  /\ \E sc \in Scenarios : config = sc[1] /\ timeframe = sc[2]
  /\ data = <<>>
  /\ result = NotCalled
  /\ prevData = <<>>
  /\ prevResult = NotCalled
  /\ calls = 0
  /\ ticks = 0
  /\ params = NoParameters
  /\ AppAtRest

\* loadData: setData(initialData); calculateSignals(initialData, config, timeframe)
LoadData ==
  /\ result.status = "none"
  /\ \E h \in Histories :
       /\ data' = History(h[1], timeframe, h[2])
       /\ result' = calculateSignals(data', config, timeframe)
  /\ params' = ParametersAfter(params, data', config, timeframe)
  /\ calls' = 1
  /\ UNCHANGED <<config, timeframe, prevData, prevResult, ticks>>
  /\ UNCHANGED appVars

\* the effect on [config, data, aiSignals]: it runs again on the array
\* loadData has just set, and computes the signals a second time
Recalculate ==
  /\ result.status = "returned"
  /\ Len(data) > 0
  /\ calls = 1
  /\ prevData' = data
  /\ prevResult' = result
  /\ result' = calculateSignals(data, config, timeframe)
  /\ params' = ParametersAfter(params, data, config, timeframe)
  /\ calls' = 2
  /\ UNCHANGED <<data, config, timeframe, ticks>>
  /\ UNCHANGED appVars

\* updateCandleWithTick: the close moves to the tick, high and low widen
CandleWithTick(candle, move, volume) ==
  [candle EXCEPT !.close = candle.close + move,
                 !.high = Max2(candle.high, candle.close + move),
                 !.low = Min2(candle.low, candle.close + move),
                 !.volume = candle.volume + volume]

\* updateTick when the last candle's timeframe has elapsed: a new candle
\* opens at the last close; the effect then recomputes the signals
TickNewCandle(move) ==
  /\ result.status = "returned"
  /\ Len(data) > 0
  /\ ticks < MaxTicks
  /\ LET lastCandle == data[Len(data)]
         newCandleBase == [time |-> lastCandle.time + TimeframeMs(timeframe),
                           open |-> lastCandle.close,
                           high |-> lastCandle.close,
                           low |-> lastCandle.close,
                           close |-> lastCandle.close,
                           volume |-> 0]
     IN data' = Append(data, CandleWithTick(newCandleBase, move, 3))
  /\ result' = calculateSignals(data', config, timeframe)
  /\ params' = ParametersAfter(params, data', config, timeframe)
  /\ prevData' = data
  /\ prevResult' = result
  /\ ticks' = ticks + 1
  /\ calls' = 2
  /\ UNCHANGED <<config, timeframe>>
  /\ UNCHANGED appVars

\* updateTick within the last candle's timeframe: the last candle is updated
TickUpdateCandle(move) ==
  /\ result.status = "returned"
  /\ Len(data) > 0
  /\ ticks < MaxTicks
  /\ data' = [data EXCEPT ![Len(data)] = CandleWithTick(data[Len(data)], move, 3)]
  /\ result' = calculateSignals(data', config, timeframe)
  /\ params' = ParametersAfter(params, data', config, timeframe)
  /\ prevData' = data
  /\ prevResult' = result
  /\ ticks' = ticks + 1
  /\ calls' = 2
  /\ UNCHANGED <<config, timeframe>>
  /\ UNCHANGED appVars

Next ==
  \/ LoadData
  \/ Recalculate
  \/ \E move \in {0, 9} : TickNewCandle(move)
  \/ \E move \in {-9} : TickUpdateCandle(move)

Spec == Init /\ [][Next]_vars

----------------------------------------------------------------------------
(* The sensitivity logic on its own: calculateSignals run up to line 883 on  *)
(* every sensitivity of the slider (1..100) and every timeframe id the      *)
(* application can hold ('1s' comes from localStorage).                     *)

TimeframeIds == {"1s", "1m", "5m", "15m", "1h", "4h", "24h"}

ParamInit ==
  /\ \E sensitivity \in 1..100 : config = Config("TREND", sensitivity, 20, FALSE)
  /\ timeframe \in TimeframeIds
  /\ data = <<>>
  /\ result = NotCalled
  /\ prevData = <<>>
  /\ prevResult = NotCalled
  /\ calls = 0
  /\ ticks = 0
  /\ params = NoParameters
  /\ AppAtRest

\* lines 848-883 of a call that got past the length guard
DeriveParameters ==
  /\ calls = 0
  /\ params' = Parameters(config, timeframe)
  /\ calls' = 1
  /\ UNCHANGED <<data, config, timeframe, result, prevData, prevResult, ticks>>
  /\ UNCHANGED appVars

ParamNext == DeriveParameters

ParamSpec == ParamInit /\ [][ParamNext]_vars

----------------------------------------------------------------------------
(* The asynchronous parts of src/App.tsx: the history request of loadData,  *)
(* the price request of updateTick, the user's changes and the auto-trade   *)
(* effect.  A request is in `inflight` from its call until its promise      *)
(* resolves; the code after the await, with the effects the state change    *)
(* triggers, is one action.  The signals the effects read (App state        *)
(* `signals`) are result.signals.                                           *)

\* TIMEFRAMES.find(tf => tf.id === timeframe)?.ms || 60000
TfMs(tf) ==
  CASE tf = "1m" -> 60000
    [] tf = "5m" -> 300000
    [] tf = "15m" -> 900000
    [] tf = "1h" -> 3600000
    [] tf = "4h" -> 14400000
    [] tf = "24h" -> 86400000
    [] OTHER -> 60000

\* newData.slice(-1000)
MaxCandles == 1000

LastN(s, n) == IF Len(s) <= n THEN s ELSE SubSeq(s, Len(s) - n + 1, Len(s))

\* fetchLatestTick resolves with the last traded price of the symbol, or
\* with null (no price: the request failed).  Prices are on the scale of the
\* histories below: BTCUSD trades around 1000, ETHUSD around 1500
NoPrice == -1

PriceOf(sym) == IF sym = "BTCUSD" THEN 1010 ELSE 1500

\* updateCandleWithTick with a real price: the close is pulled to the price
\* (alpha 0.3; the jitter drift * 0.2 is below one tick)
CandleWithRealPrice(candle, realPrice, volume) ==
  LET targetClose == (realPrice * 7 + candle.close * 3) \div 10
  IN [candle EXCEPT !.close = targetClose,
                    !.high = Max2(Max2(candle.high, targetClose), realPrice),
                    !.low = Min2(Min2(candle.low, targetClose), realPrice),
                    !.volume = candle.volume + volume]

\* updateCandleWithTick(candle, symbol.volatility, realPrice ?? undefined)
TickCandle(candle, realPrice, move) ==
  IF realPrice # NoPrice THEN CandleWithRealPrice(candle, realPrice, 3)
  ELSE CandleWithTick(candle, move, 3)

\* the updater updateTick hands to setData; Date.now() is given as the time
\* elapsed since the last candle opened
TickUpdater(prevData_, tf, realPrice, elapsed, move) ==
  IF Len(prevData_) = 0 THEN prevData_
  ELSE LET lastCandle == prevData_[Len(prevData_)]
           currentTfMs == TfMs(tf)
           now == lastCandle.time + elapsed
       IN IF now - lastCandle.time >= currentTfMs
            THEN LET alignedTime == (now \div currentTfMs) * currentTfMs
                     newCandleBase == [time |-> alignedTime,
                                       open |-> lastCandle.close,
                                       high |-> lastCandle.close,
                                       low |-> lastCandle.close,
                                       close |-> lastCandle.close,
                                       volume |-> 0]
                     newData == Append(prevData_,
                                       TickCandle(newCandleBase, realPrice, move))
                 IN LastN(newData, MaxCandles)
            ELSE [prevData_ EXCEPT ![Len(prevData_)] =
                                      TickCandle(lastCandle, realPrice, move)]

\* the histories fetchHistory(symbol, timeframe, 300) may resolve with
AppHistory(shape, tf, len) ==
  [k \in 1..len |-> [HistoryCandle(shape, "1m", k - 1) EXCEPT !.time = (k - 1) * TfMs(tf)]]

ShapesOf(sym) == IF sym = "BTCUSD" THEN {"chop", "dip"} ELSE {"fall"}

HistoryRequest(sym, tf, seq) ==
  [kind |-> "history", symbol |-> sym, timeframe |-> tf, isMounted |-> TRUE, seq |-> seq]

TickRequest(sym, tf, seq) ==
  [kind |-> "tick", symbol |-> sym, timeframe |-> tf, isMounted |-> TRUE, seq |-> seq]

\* the effect on [symbol, timeframe] up to its await: the cleanup of the
\* previous run sets that run's isMounted to false, loadData calls fetchHistory
LoadRequested(requests, sym, tf, seq) ==
  {IF r.kind = "history" THEN [r EXCEPT !.isMounted = FALSE] ELSE r : r \in requests}
    \cup {HistoryRequest(sym, tf, seq)}

\* the effect on [config, data, aiSignals]: skipped while data is empty
RecalculateEffect(data_, cfg, tf) ==
  IF Len(data_) > 0
    THEN /\ result' = calculateSignals(data_, cfg, tf)
         /\ params' = ParametersAfter(params, data_, cfg, tf)
         /\ prevData' = data
         /\ prevResult' = result
         /\ calls' = calls + 1
    ELSE UNCHANGED <<result, params, prevData, prevResult, calls>>

\* the call mt5Service.placeOrder gets, with the state it was made in
PlacedOrder(latestSignal, lastCandleTime) ==
  [symbol |-> symbol',
   type |-> IF latestSignal.type = "LONG" THEN "BUY" ELSE "SELL",
   sl |-> latestSignal.stopLoss,
   tp |-> latestSignal.takeProfit,
   signalId |-> latestSignal.id,
   candleTime |-> latestSignal.candleTime,
   lastCandleTime |-> lastCandleTime,
   isLatest |-> latestSignal = result'.signals[Len(result'.signals)],
   autoTradeEnabled |-> autoTradeEnabled',
   isConnected |-> isConnected',
   timeframe |-> timeframe',
   dataTimeframe |-> dataTimeframe']

\* the auto-trade effect, run on the state the action has produced; executed
\* is the content of executedSignalIds as the effect starts
AutoTradeEffect(executed) ==
  IF autoTradeEnabled' /\ isConnected' /\ Len(result'.signals) > 0
    THEN LET latestSignal == result'.signals[Len(result'.signals)]
             lastCandleTime == IF Len(data') > 0 THEN data'[Len(data')].time ELSE 0
             currentTfMs == TfMs(timeframe')
             isFresh == lastCandleTime - latestSignal.candleTime <= currentTfMs * 2
         IN IF isFresh /\ latestSignal.id \notin executed
              THEN /\ executedSignalIds' = executed \cup {latestSignal.id}
                   /\ placedOrders' = Append(placedOrders,
                                             PlacedOrder(latestSignal, lastCandleTime))
              ELSE /\ executedSignalIds' = executed
                   /\ placedOrders' = placedOrders
    ELSE /\ executedSignalIds' = executed
         /\ placedOrders' = placedOrders

\* fetchHistory resolves for the current run of the effect: setData,
\* calculateSignals, setSignals, then the effects on the new state (the
\* effect on [config, data, aiSignals] computes the same signals again)
HistoryArrives ==
  \E req \in inflight :
    /\ req.kind = "history"
    /\ req.isMounted
    /\ inflight' = inflight \ {req}
    /\ \E shape \in ShapesOf(req.symbol) :
         data' = AppHistory(shape, req.timeframe, 230)
    /\ dataSymbol' = req.symbol
    /\ dataTimeframe' = req.timeframe
    /\ RecalculateEffect(data', config, timeframe)
    /\ UNCHANGED <<config, timeframe, symbol, autoTradeEnabled, isConnected,
                   ticks, appliedTicks, changes>>
    /\ AutoTradeEffect(executedSignalIds)

\* fetchHistory resolves for a run whose cleanup has set isMounted to false
HistoryDropped ==
  \E req \in inflight :
    /\ req.kind = "history"
    /\ ~req.isMounted
    /\ inflight' = inflight \ {req}
    /\ UNCHANGED <<data, config, timeframe, result, prevData, prevResult, calls,
                   ticks, params, symbol, autoTradeEnabled, isConnected,
                   executedSignalIds, placedOrders, dataSymbol, dataTimeframe,
                   appliedTicks, changes>>

\* the interval of the live-tick effect fires: updateTick calls
\* fetchLatestTick(symbol) with the symbol and timeframe of its closure
StartTick ==
  /\ ticks < MaxRequests
  /\ ticks' = ticks + 1
  /\ inflight' = inflight \cup {TickRequest(symbol, timeframe, ticks)}
  /\ UNCHANGED <<data, config, timeframe, result, prevData, prevResult, calls,
                 params, symbol, autoTradeEnabled, isConnected,
                 executedSignalIds, placedOrders, dataSymbol, dataTimeframe,
                 appliedTicks, changes>>

\* fetchLatestTick resolves: setData(prevData => ...), then the effects on
\* the new data
TickArrives(hasPrice, elapsed) ==
  \E req \in inflight :
    /\ req.kind = "tick"
    /\ inflight' = inflight \ {req}
    /\ LET realPrice == IF hasPrice THEN PriceOf(req.symbol) ELSE NoPrice
       IN data' = TickUpdater(data, req.timeframe, realPrice, elapsed, 9)
    /\ appliedTicks' =
         IF Len(data) > 0 /\ hasPrice
           THEN Append(appliedTicks, [priceOf |-> req.symbol, dataOf |-> dataSymbol,
                                      symbol |-> symbol])
           ELSE appliedTicks
    /\ RecalculateEffect(data', config, timeframe)
    /\ UNCHANGED <<config, timeframe, symbol, autoTradeEnabled, isConnected,
                   ticks, dataSymbol, dataTimeframe, changes>>
    /\ AutoTradeEffect(executedSignalIds)

\* handleSymbolChange and the effects on [symbol, ...]: the data and the
\* executed ids are cleared, the signals are kept, the history of the new
\* symbol is requested; the tick effect's cleanup clears the interval only
ChangeSymbol(newSymbol) ==
  /\ changes < MaxChanges
  /\ newSymbol # symbol
  /\ changes' = changes + 1
  /\ symbol' = newSymbol
  /\ data' = <<>>
  /\ dataSymbol' = ""
  /\ dataTimeframe' = ""
  /\ inflight' = LoadRequested(inflight, newSymbol, timeframe, changes + 1)
  /\ UNCHANGED <<config, timeframe, result, prevData, prevResult, calls, ticks,
                 params, autoTradeEnabled, isConnected, appliedTicks>>
  /\ AutoTradeEffect({})

\* setTimeframe and the effects on [..., timeframe]: the data and the signals
\* stay until the new history arrives
ChangeTimeframe(tf) ==
  /\ changes < MaxChanges
  /\ tf # timeframe
  /\ changes' = changes + 1
  /\ timeframe' = tf
  /\ inflight' = LoadRequested(inflight, symbol, tf, changes + 1)
  /\ UNCHANGED <<data, config, result, prevData, prevResult, calls, ticks,
                 params, symbol, autoTradeEnabled, isConnected, dataSymbol,
                 dataTimeframe, appliedTicks>>
  /\ AutoTradeEffect(executedSignalIds)

\* the auto-trade switch of the trade settings
ToggleAutoTrade ==
  /\ changes < MaxChanges
  /\ changes' = changes + 1
  /\ autoTradeEnabled' = ~autoTradeEnabled
  /\ UNCHANGED <<data, config, timeframe, result, prevData, prevResult, calls,
                 ticks, params, symbol, isConnected, inflight, dataSymbol,
                 dataTimeframe, appliedTicks>>
  /\ AutoTradeEffect(executedSignalIds)

\* the account connects or disconnects
ToggleConnection ==
  /\ changes < MaxChanges
  /\ changes' = changes + 1
  /\ isConnected' = ~isConnected
  /\ UNCHANGED <<data, config, timeframe, result, prevData, prevResult, calls,
                 ticks, params, symbol, autoTradeEnabled, inflight, dataSymbol,
                 dataTimeframe, appliedTicks>>
  /\ AutoTradeEffect(executedSignalIds)

\* the sensitivity slider: setConfig, then the effect on [config, data, ...]
ChangeSensitivity(sensitivity) ==
  /\ changes < MaxChanges
  /\ sensitivity # config.sensitivity
  /\ changes' = changes + 1
  /\ config' = [config EXCEPT !.sensitivity = sensitivity]
  /\ RecalculateEffect(data, config', timeframe)
  /\ UNCHANGED <<data, timeframe, ticks, symbol, autoTradeEnabled, isConnected,
                 inflight, dataSymbol, dataTimeframe, appliedTicks>>
  /\ AutoTradeEffect(executedSignalIds)

\* the component mounts: the effect on [symbol, timeframe] has requested the
\* history
AppMounted ==
  /\ config = Config("TREND", 50, 20, FALSE)
  /\ timeframe = "1m"
  /\ data = <<>>
  /\ result = NotCalled
  /\ prevData = <<>>
  /\ prevResult = NotCalled
  /\ calls = 0
  /\ ticks = 0
  /\ params = NoParameters
  /\ symbol = "BTCUSD"
  /\ executedSignalIds = {}
  /\ placedOrders = <<>>
  /\ inflight = {HistoryRequest("BTCUSD", "1m", 0)}
  /\ dataSymbol = ""
  /\ dataTimeframe = ""
  /\ appliedTicks = <<>>
  /\ changes = 0

\* the elapsed times of a tick: within the candle of either timeframe, past
\* the 1m candle but within the 5m candle
Elapsed == {30000, 90000}

\* auto-trading on one symbol: the user changes the timeframe, the
\* sensitivity, the auto-trade switch and the connection while ticks arrive;
\* the saved account is connected, the saved auto-trade switch on or off
TradeInit ==
  /\ AppMounted
  /\ autoTradeEnabled \in BOOLEAN
  /\ isConnected = TRUE

TradeNext ==
  \/ HistoryArrives
  \/ HistoryDropped
  \/ StartTick
  \/ \E elapsed \in Elapsed : TickArrives(TRUE, elapsed)
  \/ \E tf \in {"1m", "5m"} : ChangeTimeframe(tf)
  \/ \E sensitivity \in {50, 100} : ChangeSensitivity(sensitivity)
  \/ ToggleAutoTrade
  \/ ToggleConnection

TradeSpec == TradeInit /\ [][TradeNext]_vars

\* live ticks while the user changes the symbol and the timeframe
TickInit ==
  /\ AppMounted
  /\ autoTradeEnabled = FALSE
  /\ isConnected = FALSE

TickNext ==
  \/ HistoryArrives
  \/ HistoryDropped
  \/ StartTick
  \/ \E hasPrice \in BOOLEAN, elapsed \in Elapsed : TickArrives(hasPrice, elapsed)
  \/ \E newSymbol \in {"BTCUSD", "ETHUSD"} : ChangeSymbol(newSymbol)
  \/ \E tf \in {"1m", "5m"} : ChangeTimeframe(tf)

TickSpec == TickInit /\ [][TickNext]_vars

----------------------------------------------------------------------------
(* Properties of calculateSignals, stated on the outcome of the latest call *)

Signals == result.signals
Called == result.status # "none"

\* the index of the candle a signal was pushed for, -1 when there is none
IndexOfTime(data_, time) ==
  IF \E i \in 0..(Len(data_) - 1) : At(data_, i).time = time
    THEN CHOOSE i \in 0..(Len(data_) - 1) : At(data_, i).time = time
    ELSE -1

\* C1: for a candle array of at least 200 candles with strictly increasing
\* times, the returned list is strictly ordered by ascending candleTime: no
\* two signals share a candleTime and none is out of order.
C1_StrictlyAscending ==
  (Called /\ Len(data) >= 200) =>
    \A k \in 1..(Len(Signals) - 1) :
      Signals[k].candleTime < Signals[k + 1].candleTime

C1_Witness ==
  /\ Called /\ Len(data) >= 200
  /\ Len(Signals) >= 3
  /\ \A k \in 1..(Len(data) - 1) : data[k].time < data[k + 1].time

\* C2: two consecutive signals of one call are at least cooldownCandles *
\* candleDuration apart, cooldownCandles being derived from the sensitivity
\* and candleDuration being the gap between the first two candles.
C2_CooldownGap ==
  Called =>
    \A k \in 1..(Len(Signals) - 1) :
      Signals[k + 1].candleTime - Signals[k].candleTime
        >= CooldownCandles(Sensitivity(config), timeframe) * CandleDuration(data)

\* two consecutive signals exactly one cooldown apart
C2_Witness ==
  /\ Called
  /\ \E k \in 1..(Len(Signals) - 1) :
       Signals[k + 1].candleTime - Signals[k].candleTime
         = CooldownCandles(Sensitivity(config), timeframe) * CandleDuration(data)

\* C3: every emitted signal has a confidence between 30 and 98 inclusive.
C3_ConfidenceRange ==
  \A k \in 1..Len(Signals) :
    Signals[k].confidence >= 30 /\ Signals[k].confidence <= 98

\* a signal whose factors add up to more than 98 and which carries 98
C3_Witness ==
  \E k \in 1..Len(Signals) :
    /\ Signals[k].confidence = 98
    /\ Signals[k].type = "SHORT"

\* C4: with riskReward > 0 and ATR(14) > 0 at the triggering candle, a LONG
\* signal has stopLoss < entryPrice < takeProfit and a SHORT signal has
\* takeProfit < entryPrice < stopLoss.
C4_StopEntryTarget ==
  (Called /\ Signals # <<>>) =>
    LET atrArray == calculateATR(data, 14)
    IN \A k \in 1..Len(Signals) :
         LET sig == Signals[k]
             i == IndexOfTime(data, sig.candleTime)
         IN (config.riskReward > 0 /\ i >= 0 /\ At(atrArray, i) > 0) =>
              IF sig.type = "LONG"
                THEN sig.stopLoss < sig.entryPrice /\ sig.entryPrice < sig.takeProfit
                ELSE sig.takeProfit < sig.entryPrice /\ sig.entryPrice < sig.stopLoss

\* a LONG and a SHORT signal of one call, both on candles with ATR(14) > 0
C4_Witness ==
  /\ Called /\ config.riskReward > 0
  /\ \E k, m \in 1..Len(Signals) :
       /\ Signals[k].type = "LONG" /\ Signals[m].type = "SHORT"
       /\ Signals[k].stopLoss < Signals[k].entryPrice
       /\ Signals[m].stopLoss > Signals[m].entryPrice
       /\ At(calculateATR(data, 14), IndexOfTime(data, Signals[k].candleTime)) > 0
       /\ At(calculateATR(data, 14), IndexOfTime(data, Signals[m].candleTime)) > 0

C6_ShortInputReturnsEmpty ==
  (Called /\ Len(data) < 200) => result = Returned(<<>>)

\* C7: no signal is emitted for a candle at an index below 200: every
\* signal's candleTime is the time of an input candle at index >= 200.
C7_NoSignalBeforeIndex200 ==
  Called =>
    \A k \in 1..Len(Signals) :
      \E i \in 200..(Len(data) - 1) : At(data, i).time = Signals[k].candleTime

\* a signal on the very first candle the loop looks at
C7_Witness ==
  /\ Called /\ Len(data) > 200
  /\ \E k \in 1..Len(Signals) : Signals[k].candleTime = At(data, 200).time

\* data is prevData with candles appended and/or its last candle changed
Extends(prevData_, data_) ==
  /\ Len(data_) >= Len(prevData_)
  /\ \A k \in 1..(Len(prevData_) - 1) : data_[k] = prevData_[k]

\* the first changed or appended candle's position (1-based), Len + 1 if none
FirstChanged(prevData_, data_) ==
  IF prevData_ # <<>> /\ data_[Len(prevData_)] # prevData_[Len(prevData_)]
    THEN Len(prevData_)
    ELSE Len(prevData_) + 1

\* C8: when the candle array of a call is the previous call's array (of at
\* least 200 candles) with candles appended and/or its last candle changed,
\* every signal of the previous call on a candle earlier than the first
\* changed or appended one is in the new output, unchanged and in the same
\* position.
C8_ReplayStable ==
  (/\ calls = 2 /\ prevResult.status = "returned"
   /\ Len(prevData) >= 200 /\ Extends(prevData, data)) =>
    /\ result.status = "returned"
    /\ \A k \in 1..Len(prevResult.signals) :
         (\A j \in FirstChanged(prevData, data)..Len(data) :
             prevResult.signals[k].candleTime < data[j].time) =>
           /\ k <= Len(Signals)
           /\ Signals[k] = prevResult.signals[k]

\* a tick changed the output while earlier signals stayed in place
C8_Witness ==
  /\ calls = 2 /\ ticks >= 1 /\ prevResult.status = "returned"
  /\ Len(prevData) >= 200 /\ Extends(prevData, data) /\ data # prevData
  /\ Signals # prevResult.signals
  /\ \E k \in 1..Len(prevResult.signals) :
       /\ prevResult.signals[k].candleTime
            < data[FirstChanged(prevData, data)].time
       /\ k <= Len(Signals) /\ Signals[k] = prevResult.signals[k]

\* every candle has open = high = low = close = one price, and one volume
IsFlat(data_) ==
  \A k \in 1..Len(data_) :
    /\ data_[k].open = data_[1].close /\ data_[k].high = data_[1].close
    /\ data_[k].low = data_[1].close /\ data_[k].close = data_[1].close
    /\ data_[k].volume = data_[1].volume

\* C9: a flat candle series of any length yields zero signals under every
\* strategy and filter configuration, and the call does not fail.
C9_FlatSeriesNoSignals ==
  (Called /\ IsFlat(data)) => result = Returned(<<>>)

\* 300 candles of a price that only rises: each candle opens no lower than
\* the previous close, closes above its open, and has no wicks
IsRising300(data_) ==
  /\ Len(data_) = 300
  /\ \A k \in 1..300 :
       /\ data_[k].low = data_[k].open /\ data_[k].high = data_[k].close
       /\ data_[k].close > data_[k].open
       /\ k > 1 => data_[k].open >= data_[k - 1].close

NoFilters(cfg) ==
  ~cfg.useMacdFilter /\ ~cfg.useEmaTrendFilter /\ ~cfg.useAdxFilter

\* the reason text contains "Breakout"
ContainsBreakout(reason) ==
  \E k \in 1..Len(reason) : reason[k] = "-Period Breakout"

\* C10: with strategy MOMENTUM, sensitivity 50 and no filters, 300 candles of
\* strictly rising prices yield at least one LONG signal whose reason
\* contains "Breakout".
C10_UptrendBreakout ==
  (/\ Called /\ config.strategy = "MOMENTUM" /\ config.sensitivity = 50
   /\ NoFilters(config) /\ IsRising300(data)) =>
    \E k \in 1..Len(Signals) :
      Signals[k].type = "LONG" /\ ContainsBreakout(Signals[k].reason)

C10_Witness ==
  /\ Called /\ config.strategy = "MOMENTUM" /\ config.sensitivity = 50
  /\ NoFilters(config) /\ IsRising300(data)
  /\ \E k \in 1..Len(Signals) :
       /\ Signals[k].type = "LONG" /\ ContainsBreakout(Signals[k].reason)
       /\ Signals[k].candleTime = At(data, 200).time

\* the index of the candle the k-th signal of the latest call was pushed for
SignalIndex(k) == IndexOfTime(data, Signals[k].candleTime)

\* C11: with useEmaTrendFilter enabled, every emitted LONG signal's candle
\* closes strictly above EMA(200) at its index and every emitted SHORT
\* signal's candle closes strictly below it (so that the TREND strategy emits
\* no LONG on data that stays below EMA(200)).
C11_EmaTrendFilter ==
  (Called /\ config.useEmaTrendFilter /\ Signals # <<>>) =>
    LET ema200 == calculateEMA(data, 200)
    IN \A k \in 1..Len(Signals) :
         LET i == SignalIndex(k)
         IN IF Signals[k].type = "LONG"
              THEN At(data, i).close * FP > At(ema200, i)
              ELSE At(data, i).close * FP < At(ema200, i)

\* the price part of the Bollinger rejection at candle i, the RSI test left
\* out: "LONG" at the lower band, "SHORT" at the upper band, else "NONE"
BBRejection(data_, ema21, i) ==
  LET current == At(data_, i)
      prev == At(data_, i - 1)
      stdDev == calculateStdDev(data_, 20, i, At(ema21, i))
      upperBB == At(ema21, i) + stdDev * 2
      lowerBB == At(ema21, i) - stdDev * 2
  IN IF /\ prev.low * FP < lowerBB /\ current.close * FP > lowerBB
        /\ current.close > current.open
       THEN "LONG"
     ELSE IF /\ prev.high * FP > upperBB /\ current.close * FP < upperBB
             /\ current.close < current.open
       THEN "SHORT"
     ELSE "NONE"

\* lo <= rsi < hi and lo < rsi <= hi for an extended rsi, bounds in percent/100
RsiFromBelow(rsi, lo, hi) == IsFin(rsi) /\ rsi[1] * 100 >= lo * FP /\ rsi[1] * 100 < hi * FP
RsiUpTo(rsi, lo, hi) == IsFin(rsi) /\ rsi[1] * 100 > lo * FP /\ rsi[1] * 100 <= hi * FP
RsiWithin(rsi, lo, hi) == IsFin(rsi) /\ rsi[1] * 100 >= lo * FP /\ rsi[1] * 100 <= hi * FP

ReversalCalled ==
  /\ result.status = "returned" /\ Len(data) > 200
  /\ config.strategy = "REVERSAL"

\* C12 as claimed: with strategy REVERSAL, at a candle with a Bollinger
\* rejection whose RSI lies between 45 and 55, sensitivity 100 accepts the
\* candidate and sensitivity 1 rejects it.
C12_AcceptedBetween45And55 ==
  ReversalCalled =>
    LET ema21 == calculateEMA(data, 21)
        rsiArray == calculateRSIArray(data, 14)
    IN \A i \in 200..(Len(data) - 1) :
         (/\ BBRejection(data, ema21, i) # "NONE"
          /\ RsiWithin(At(rsiArray, i), 4500, 5500)) =>
           /\ ReversalCandidate(data, ema21, rsiArray, 100, i).isSignal
           /\ ~ReversalCandidate(data, ema21, rsiArray, 1, i).isSignal

\* C12 as amended: sensitivity 100 accepts, and sensitivity 1 rejects, a
\* rejection at the lower band whose RSI is at least 20.25 and below 45, and a
\* rejection at the upper band whose RSI is above 55 and at most 79.75; with
\* an RSI between 45 and 55 neither sensitivity accepts the candidate.
C12_WiderRsiBandAtSensitivity100 ==
  ReversalCalled =>
    LET ema21 == calculateEMA(data, 21)
        rsiArray == calculateRSIArray(data, 14)
    IN \A i \in 200..(Len(data) - 1) :
         LET side == BBRejection(data, ema21, i)
             rsi == At(rsiArray, i)
             at100 == ReversalCandidate(data, ema21, rsiArray, 100, i)
             at1 == ReversalCandidate(data, ema21, rsiArray, 1, i)
         IN /\ (side = "LONG" /\ RsiFromBelow(rsi, 2025, 4500)) =>
                 at100.isSignal /\ at100.type = "LONG" /\ ~at1.isSignal
            /\ (side = "SHORT" /\ RsiUpTo(rsi, 5500, 7975)) =>
                 at100.isSignal /\ at100.type = "SHORT" /\ ~at1.isSignal
            /\ (side # "NONE" /\ RsiWithin(rsi, 4500, 5500)) =>
                 ~at100.isSignal /\ ~at1.isSignal

\* the engine, run at sensitivity 100, emitted a rejection at the lower band
\* with an RSI below 45 that sensitivity 1 rejects, and passed over a
\* rejection with an RSI between 45 and 55
C12_Witness ==
  /\ ReversalCalled /\ config.sensitivity = 100
  /\ LET ema21 == calculateEMA(data, 21)
         rsiArray == calculateRSIArray(data, 14)
     IN /\ \E k \in 1..Len(Signals) :
             LET i == SignalIndex(k)
             IN /\ Signals[k].type = "LONG"
                /\ BBRejection(data, ema21, i) = "LONG"
                /\ RsiFromBelow(At(rsiArray, i), 2025, 4500)
                /\ ~ReversalCandidate(data, ema21, rsiArray, 1, i).isSignal
        /\ \E i \in 200..(Len(data) - 1) :
             /\ BBRejection(data, ema21, i) # "NONE"
             /\ RsiWithin(At(rsiArray, i), 4500, 5500)
             /\ ~ReversalCandidate(data, ema21, rsiArray, 100, i).isSignal

\* C13: with useRSIFilter enabled, no LONG signal is emitted at a candle
\* whose RSI is below 40 or above 70, and no SHORT signal at a candle whose
\* RSI is above 60 or below 30.
C13_RsiFilter ==
  (Called /\ config.useRSIFilter /\ Signals # <<>>) =>
    LET rsiArray == calculateRSIArray(data, 14)
    IN \A k \in 1..Len(Signals) :
         LET rsi == At(rsiArray, SignalIndex(k))
         IN IF Signals[k].type = "LONG"
              THEN ~XLt(rsi, 40 * FP) /\ ~XGt(rsi, 70 * FP)
              ELSE ~XGt(rsi, 60 * FP) /\ ~XLt(rsi, 30 * FP)

\* C14: with useVolumeFilter enabled, a signal is emitted only at a candle
\* whose volume exceeds 1.2 times the mean volume of the 10 preceding candles.
C14_VolumeFilter ==
  (Called /\ config.useVolumeFilter) =>
    \A k \in 1..Len(Signals) :
      LET i == SignalIndex(k)
          sumVol == For(LAMBDA v, j: v + At(data, i - j).volume, 0, 1, 10)
      IN At(data, i).volume * 100 > sumVol * 12

\* the strategy's candidate at every candle the loop visits, before any
\* filter: what `isSignal`, `type` and `reason` are at line 962
Candidates(data_, cfg) ==
  LET sensitivity == Sensitivity(cfg)
      ema21 == calculateEMA(data_, 21)
      rsiArray == calculateRSIArray(data_, 14)
      hma9 == calculateHMA(data_, 9)
      stData == calculateSuperTrend(data_, calculateATR(data_, 14),
                  StFactor1000(sensitivity), StPeriod(sensitivity))
  IN [i \in startIndex..(Len(data_) - 1) |->
        IF cfg.strategy = "TREND"
          THEN TrendCandidate(data_, stData.direction, hma9, i)
        ELSE IF cfg.strategy = "REVERSAL"
          THEN ReversalCandidate(data_, ema21, rsiArray, sensitivity, i)
        ELSE IF cfg.strategy = "MOMENTUM"
          THEN MomentumCandidate(data_, MomentumLookback(sensitivity), i)
        ELSE NoCandidate]

\* the latest call went through the signal loop
LoopRan == result.status = "returned" /\ Len(data) > startIndex

\* C15: with useMacdFilter enabled, no LONG signal is emitted at a candle
\* whose MACD histogram is negative and no SHORT signal at a candle whose
\* histogram is positive; a candidate vetoed this way leaves no signal (and
\* so no confidence) for its index.
C15_MacdFilter ==
  (LoopRan /\ config.useMacdFilter) =>
    LET histogram == calculateMACD(data, 12, 26, 9).histogram
        cands == Candidates(data, config)
    IN /\ \A k \in 1..Len(Signals) :
            IF Signals[k].type = "LONG"
              THEN At(histogram, SignalIndex(k)) >= 0
              ELSE At(histogram, SignalIndex(k)) <= 0
       /\ \A i \in startIndex..(Len(data) - 1) :
            (/\ cands[i].isSignal
             /\ \/ cands[i].type = "LONG" /\ At(histogram, i) < 0
                \/ cands[i].type = "SHORT" /\ At(histogram, i) > 0) =>
              \A k \in 1..Len(Signals) : Signals[k].candleTime # At(data, i).time

\* a LONG candidate on a negative histogram was dropped, and a LONG signal on
\* a positive histogram went through the filter
C15_Witness ==
  /\ LoopRan /\ config.useMacdFilter
  /\ LET histogram == calculateMACD(data, 12, 26, 9).histogram
         cands == Candidates(data, config)
     IN /\ \E i \in startIndex..(Len(data) - 1) :
             /\ cands[i].isSignal /\ cands[i].type = "LONG"
             /\ At(histogram, i) < 0
             /\ \A k \in 1..Len(Signals) : Signals[k].candleTime # At(data, i).time
        /\ \E k \in 1..Len(Signals) :
             /\ Signals[k].type = "LONG"
             /\ At(histogram, SignalIndex(k)) > 0
             /\ Signals[k].reason[Len(Signals[k].reason)] = " (MACD)"

\* the reason text ends with the ADX suffix of the value adx
EndsWithAdx(reason, adx) ==
  LET suffix == <<" (ADX ">> \o ToFixed1(adx) \o <<")">>
  IN /\ Len(reason) >= Len(suffix)
     /\ SubSeq(reason, Len(reason) - Len(suffix) + 1, Len(reason)) = suffix

\* C16: with useAdxFilter enabled, a signal is emitted only at a candle whose
\* ADX(14) is a number not below adxThreshold, and its reason ends with the
\* ADX value; with the filter disabled no reason carries an ADX suffix.
C16_AdxFilter ==
  (LoopRan /\ Signals # <<>>) =>
    LET adxArray == calculateADX(data, 14)
    IN \A k \in 1..Len(Signals) :
         LET adx == At(adxArray, SignalIndex(k))
         IN IF config.useAdxFilter
              THEN /\ IsFin(adx) /\ adx[1] >= config.adxThreshold * FP
                   /\ EndsWithAdx(Signals[k].reason, adx)
              ELSE \A j \in 1..Len(Signals[k].reason) :
                     Signals[k].reason[j] # " (ADX "

\* C17: filters only veto: whatever filters are enabled, every emitted
\* signal lies on a candle for which the strategy produced a candidate and
\* has that candidate's direction (LONG or SHORT).
C17_FiltersOnlyVeto ==
  (LoopRan /\ Signals # <<>>) =>
    LET cands == Candidates(data, config)
    IN \A k \in 1..Len(Signals) :
         /\ cands[SignalIndex(k)].isSignal
         /\ cands[SignalIndex(k)].type = Signals[k].type

\* with the three filters on, a LONG and a SHORT signal went through and a
\* candidate against the major trend was dropped
C17_Witness ==
  /\ LoopRan
  /\ config.useMacdFilter /\ config.useEmaTrendFilter /\ config.useAdxFilter
  /\ LET cands == Candidates(data, config)
         ema200 == calculateEMA(data, 200)
     IN /\ \E k, m \in 1..Len(Signals) :
             /\ Signals[k].type = "LONG" /\ cands[SignalIndex(k)].type = "LONG"
             /\ Signals[m].type = "SHORT" /\ cands[SignalIndex(m)].type = "SHORT"
        /\ \E i \in startIndex..(Len(data) - 1) :
             /\ cands[i].isSignal /\ cands[i].type = "SHORT"
             /\ At(data, i).close * FP > At(ema200, i)
             /\ \A k \in 1..Len(Signals) : Signals[k].candleTime # At(data, i).time

\* Math.round(num / den) said without a division: the integer n with
\* n - 1/2 <= num/den < n + 1/2
NearestInt(num, den) ==
  CHOOSE n \in -100..100 : den * (2 * n - 1) <= 2 * num /\ 2 * num < den * (2 * n + 1)

\* x, a fixed-point number, is the exact value num/den to within 1/FP
IsValue(x, num, den) == Abs(x * den - num * FP) < den

\* momentumLookback, rsiLower, rsiUpper, stFactor and stPeriod as stated
StatedDerivations(p, s) ==
  /\ p.momentumLookback = Max2(5, NearestInt(3000 - 25 * s, 100))
  /\ IsValue(p.rsiLower, 2000 + 25 * s, 100)
  /\ IsValue(p.rsiUpper, 8000 - 25 * s, 100)
  /\ p.stFactor1000 = 4000 - 25 * s
  /\ p.stPeriod = Max2(7, NearestInt(1400 - 7 * s, 100))

Derived == params # NoParameters

\* C18 as claimed: for every sensitivity in 1..100 and every timeframe the
\* parameters the engine uses are cooldownCandles = max(2, round(20 - s*0.18)),
\* momentumLookback = max(5, round(30 - s*0.25)), rsiLower = 20 + s*0.25,
\* rsiUpper = 80 - s*0.25, stFactor = 4.0 - s*0.025 and
\* stPeriod = max(7, round(14 - s*0.07)).
C18_StatedDerivations ==
  (Derived /\ config.sensitivity \in 1..100) =>
    /\ params.cooldownCandles
         = Max2(2, NearestInt(2000 - 18 * config.sensitivity, 100))
    /\ StatedDerivations(params, config.sensitivity)

\* C18 as amended: the same, except that on the '1s' timeframe the engine's
\* cooldownCandles is four times max(2, round(20 - s*0.18)).
C18_DerivationsWith1sCooldown ==
  (Derived /\ config.sensitivity \in 1..100) =>
    /\ params.cooldownCandles
         = (IF timeframe = "1s" THEN 4 ELSE 1)
             * Max2(2, NearestInt(2000 - 18 * config.sensitivity, 100))
    /\ StatedDerivations(params, config.sensitivity)

\* sensitivity 25 on the 1s chart: 20 - 4.5 = 15.5 rounds to 16, times 4;
\* 30 - 6.25 = 23.75 rounds to 24
C18_Witness ==
  /\ Derived /\ timeframe = "1s" /\ config.sensitivity = 25
  /\ params.cooldownCandles = 64
  /\ params.momentumLookback = 24
  /\ params.stPeriod = 12

\* C19: no indicator entry before the indicator's warm-up index is read
\* downstream: not by the strategy, filter and confidence code of the signal
\* loop, and not by an indicator derived from another one (MACD from EMA(12)
\* and EMA(26), HMA from WMA(4) and WMA(9), SuperTrend from ATR(14)).
C19_NoWarmupRead ==
  (result.status = "returned" /\ Len(data) >= MinCandles) =>
    LET n == Len(data)
    IN /\ \A i \in LoopReads(n) :
            i >= EMAWarmup(200) /\ i >= ADXWarmup(14) /\ i >= ATRWarmup(14)
       /\ \A i \in MACDReads(n) : i >= EMAWarmup(12) /\ i >= EMAWarmup(26)
       /\ \A i \in HMAReads(n) : i >= WMAWarmup(9 \div 2) /\ i >= WMAWarmup(9)
       /\ \A i \in SuperTrendReads(n, StPeriod(Sensitivity(config))) :
            i >= ATRWarmup(14)

\* C20: for every candle array of at least 200 candles, arrays without price
\* range or without a loss included, no indicator entry comes from a division
\* by zero: RSI is 100 at every index from the seed index on where the
\* average loss is 0, and every ADX entry is a finite number.
C20_NoDivisionByZero ==
  (Called /\ Len(data) >= 200) =>
    LET rsiArray == calculateRSIArray(data, 14)
        avgLoss == RSIAvgLoss(data, 14)
        adxArray == calculateADX(data, 14)
    IN /\ \A i \in 14..(Len(data) - 1) :
            /\ IsFin(At(rsiArray, i))
            /\ At(avgLoss, i) = 0 => At(rsiArray, i) = Fin(100 * FP)
       /\ \A i \in 0..(Len(data) - 1) : IsFin(At(adxArray, i))

\* the value x held between lo and hi
Clamp(x, lo, hi) == IF x < lo THEN lo ELSE IF x > hi THEN hi ELSE x

\* RSI alignment: LONG gets +15 if RSI < 35, -10 if RSI > 60; SHORT gets +15
\* if RSI > 65, -10 if RSI < 40
RsiAdj(type, rsi) ==
  IF type = "LONG"
    THEN (IF XLt(rsi, 35 * FP) THEN 15 ELSE IF XGt(rsi, 60 * FP) THEN -10 ELSE 0)
    ELSE (IF XGt(rsi, 65 * FP) THEN 15 ELSE IF XLt(rsi, 40 * FP) THEN -10 ELSE 0)

\* Volume: +15 if the volume of candle i is above 1.5 times the mean volume of
\* the 10 candles before it, else +5 if above that mean
VolAdj(data_, i) ==
  LET sum10 == For(LAMBDA v, k: v + At(data_, i - k).volume, 0, 1, 10)
      vol == At(data_, i).volume
  IN IF 10 * vol * 2 > 3 * sum10 THEN 15 ELSE IF 10 * vol > sum10 THEN 5 ELSE 0

\* +10 when close, EMA21 and EMA50 are in the order of the direction:
\* close > EMA21 > EMA50 for LONG, close < EMA21 < EMA50 for SHORT
TrendAdjOrdered(type, close, ema21, ema50) ==
  IF \/ type = "LONG" /\ close > ema21 /\ ema21 > ema50
     \/ type = "SHORT" /\ close < ema21 /\ ema21 < ema50
    THEN 10 ELSE 0

\* +10 when close and EMA21 are both on the direction's side of EMA50
TrendAdjSides(type, close, ema21, ema50) ==
  IF \/ type = "LONG" /\ close > ema50 /\ ema21 > ema50
     \/ type = "SHORT" /\ close < ema50 /\ ema21 < ema50
    THEN 10 ELSE 0

\* +10 when ADX > 30
AdxAdj(adx) == IF XGt(adx, 30 * FP) THEN 10 ELSE 0

\* C21 as claimed: the confidence of every emitted signal is
\* clamp(60 + rsiAdj + volAdj + trendAdj + adxAdj, 30, 98), trendAdj being +10
\* when close, EMA21 and EMA50 are ordered as the signal's direction has them.
C21_ConfidenceWithOrdering ==
  (LoopRan /\ Signals # <<>>) =>
    LET rsiArray == calculateRSIArray(data, 14)
        adxArray == calculateADX(data, 14)
        ema21 == calculateEMA(data, 21)
        ema50 == calculateEMA(data, 50)
    IN \A k \in 1..Len(Signals) :
         LET i == SignalIndex(k)
             type == Signals[k].type
         IN Signals[k].confidence =
              Clamp(60 + RsiAdj(type, At(rsiArray, i)) + VolAdj(data, i)
                      + TrendAdjOrdered(type, At(data, i).close * FP,
                                        At(ema21, i), At(ema50, i))
                      + AdxAdj(At(adxArray, i)),
                    30, 98)

\* C21 as amended: the same, trendAdj being +10 when the close and EMA21 are
\* both above EMA50 (LONG) or both below EMA50 (SHORT), whatever the order of
\* the close and EMA21.
C21_ConfidenceWithSides ==
  (LoopRan /\ Signals # <<>>) =>
    LET rsiArray == calculateRSIArray(data, 14)
        adxArray == calculateADX(data, 14)
        ema21 == calculateEMA(data, 21)
        ema50 == calculateEMA(data, 50)
    IN \A k \in 1..Len(Signals) :
         LET i == SignalIndex(k)
             type == Signals[k].type
         IN Signals[k].confidence =
              Clamp(60 + RsiAdj(type, At(rsiArray, i)) + VolAdj(data, i)
                      + TrendAdjSides(type, At(data, i).close * FP,
                                      At(ema21, i), At(ema50, i))
                      + AdxAdj(At(adxArray, i)),
                    30, 98)

\* a LONG signal on a candle that closes between EMA50 and EMA21 got the
\* +10, and it shows in its confidence
C21_Witness ==
  /\ LoopRan
  /\ LET rsiArray == calculateRSIArray(data, 14)
         adxArray == calculateADX(data, 14)
         ema21 == calculateEMA(data, 21)
         ema50 == calculateEMA(data, 50)
     IN \E k \in 1..Len(Signals) :
          LET i == SignalIndex(k)
              close == At(data, i).close * FP
              rest == 60 + RsiAdj("LONG", At(rsiArray, i)) + VolAdj(data, i)
                        + AdxAdj(At(adxArray, i))
          IN /\ Signals[k].type = "LONG"
             /\ close > At(ema50, i) /\ close < At(ema21, i)
             /\ At(ema21, i) > At(ema50, i)
             /\ rest + 10 <= 98
             /\ Signals[k].confidence = rest + 10

\* C22: every emitted signal has entryPrice equal to the close of the input
\* candle whose time is the signal's candleTime, stopLoss 2 * ATR(14) away
\* from that close (below it for a LONG, above it for a SHORT), takeProfit
\* 2 * ATR(14) * riskReward away on the other side, and status ACTIVE.
\* Signal prices are in 1/(10 * FP) ticks and riskReward is in tenths.
C22_EntryStopTarget ==
  (LoopRan /\ Signals # <<>>) =>
    LET atrArray == calculateATR(data, 14)
    IN \A k \in 1..Len(Signals) :
         LET sig == Signals[k]
             i == SignalIndex(k)
             close == At(data, i).close * FP * 10
             stopDistance == 2 * At(atrArray, i) * 10
             targetDistance == 2 * At(atrArray, i) * config.riskReward
         IN /\ i >= 0
            /\ sig.entryPrice = close
            /\ sig.status = "ACTIVE"
            /\ IF sig.type = "LONG"
                 THEN /\ sig.stopLoss = close - stopDistance
                      /\ sig.takeProfit = close + targetDistance
                 ELSE /\ sig.stopLoss = close + stopDistance
                      /\ sig.takeProfit = close - targetDistance

\* with riskReward 0.5, a SHORT signal on a candle with ATR(14) > 0 whose
\* target is one ATR below the close and whose stop is two ATR above it
C22_Witness ==
  /\ LoopRan /\ config.riskReward = 5
  /\ LET atrArray == calculateATR(data, 14)
     IN \E k \in 1..Len(Signals) :
          LET atr == At(atrArray, SignalIndex(k))
          IN /\ Signals[k].type = "SHORT" /\ atr > 0
             /\ Signals[k].status = "ACTIVE"
             /\ Signals[k].entryPrice - Signals[k].takeProfit = atr * 10
             /\ Signals[k].stopLoss - Signals[k].entryPrice = atr * 20

\* whether the candle at each index the loop visits has a candidate that gets
\* past the filters of lines 962-1000 and so reaches the cooldown test
Survives(data_, cfg) ==
  LET cands == Candidates(data_, cfg)
      histogram == calculateMACD(data_, 12, 26, 9).histogram
      ema200 == calculateEMA(data_, 200)
      adxArray == calculateADX(data_, 14)
  IN [i \in startIndex..(Len(data_) - 1) |->
        /\ cands[i].isSignal
        /\ ~MacdVeto(cfg, cands[i].type, At(histogram, i))
        /\ ~EmaTrendVeto(cfg, cands[i].type, At(data_, i).close * FP, At(ema200, i))
        /\ ~AdxVeto(cfg, At(adxArray, i))]

\* the candle at index i carries a signal of the latest call
EmittedAt(i) == \E k \in 1..Len(Signals) : Signals[k].candleTime = At(data, i).time

\* the candle times of the signals emitted before the candle at index i
EmittedBefore(i) ==
  {Signals[k].candleTime : k \in 1..Len(Signals)} \cap 0..(At(data, i).time - 1)

\* C23: cooldown gating is greedy and complete: a candle from index 200 on
\* carries a signal if and only if its candidate survived the strategy and
\* the enabled filters and either no signal was emitted before it in this
\* run or every signal emitted before it (so the last one) lies at least
\* cooldownCandles * candleDuration back; only emitted signals count, never a
\* vetoed or suppressed candidate.
C23_GreedyCooldown ==
  LoopRan =>
    LET survives == Survives(data, config)
        minTime == CooldownCandles(Sensitivity(config), timeframe) * CandleDuration(data)
    IN \A i \in startIndex..(Len(data) - 1) :
         EmittedAt(i) <=>
           /\ survives[i]
           /\ \A t \in EmittedBefore(i) : At(data, i).time - t >= minTime

\* a surviving candidate was suppressed inside the cooldown of the signal
\* before it, and a later candidate, less than a cooldown after the suppressed
\* one, was emitted
C23_Witness ==
  /\ LoopRan
  /\ LET survives == Survives(data, config)
         minTime == CooldownCandles(Sensitivity(config), timeframe) * CandleDuration(data)
     IN \E i, j \in startIndex..(Len(data) - 1) :
          /\ i < j
          /\ survives[i] /\ ~EmittedAt(i) /\ EmittedBefore(i) # {}
          /\ survives[j] /\ EmittedAt(j)
          /\ At(data, j).time - At(data, i).time < minTime

\* the close crosses HMA(9) upwards ("UP") or downwards ("DOWN") from candle
\* i - 1 to candle i, or does neither ("NONE")
HmaCross(data_, hma9, i) ==
  IF At(data_, i - 1).close * FP < At(hma9, i - 1) /\ At(data_, i).close * FP > At(hma9, i)
    THEN "UP"
  ELSE IF At(data_, i - 1).close * FP > At(hma9, i - 1) /\ At(data_, i).close * FP < At(hma9, i)
    THEN "DOWN"
  ELSE "NONE"

TrendCalled == LoopRan /\ config.strategy = "TREND"

\* the SuperTrend direction series of the latest call
DirectionOf(data_, cfg) ==
  calculateSuperTrend(data_, calculateATR(data_, 14),
    StFactor1000(Sensitivity(cfg)), StPeriod(Sensitivity(cfg))).direction

\* C24: in the TREND strategy a SuperTrend flip at index i takes priority:
\* with direction[i-1] = -1 and direction[i] = 1 the candidate is LONG
\* "SuperTrend Buy Flip" (the inverse gives SHORT "SuperTrend Sell Flip"),
\* whatever HMA(9) does; an "HMA Trend Entry" candidate is produced only where
\* no flip occurred, exactly when the close crosses HMA(9) in the current
\* SuperTrend direction; an index has one candidate or none, and every signal
\* carries the trigger of its candle's candidate.
C24_FlipBeforeHma ==
  TrendCalled =>
    LET direction == DirectionOf(data, config)
        hma9 == calculateHMA(data, 9)
        cands == Candidates(data, config)
    IN /\ \A i \in startIndex..(Len(data) - 1) :
            LET before == At(direction, i - 1)
                now == At(direction, i)
                cross == HmaCross(data, hma9, i)
            IN /\ (before = -1 /\ now = 1) =>
                    cands[i] = Candidate("LONG", <<"SuperTrend Buy Flip">>)
               /\ (before = 1 /\ now = -1) =>
                    cands[i] = Candidate("SHORT", <<"SuperTrend Sell Flip">>)
               /\ before = now =>
                    cands[i] = IF now = 1 /\ cross = "UP"
                                 THEN Candidate("LONG", <<"HMA Trend Entry">>)
                               ELSE IF now = -1 /\ cross = "DOWN"
                                 THEN Candidate("SHORT", <<"HMA Trend Entry">>)
                               ELSE NoCandidate
               /\ before \in {-1, 1} /\ now \in {-1, 1}
       /\ \A k \in 1..Len(Signals) :
            /\ Signals[k].reason[1] = cands[SignalIndex(k)].reason[1]
            /\ Signals[k].type = cands[SignalIndex(k)].type

\* a flip and an HMA crossover in the new direction fell on one candle, and
\* its candidate names the flip; a signal of the same call, on a candle
\* without a flip, is an "HMA Trend Entry"
C24_Witness ==
  /\ TrendCalled
  /\ LET direction == DirectionOf(data, config)
         hma9 == calculateHMA(data, 9)
         cands == Candidates(data, config)
     IN /\ \E i \in startIndex..(Len(data) - 1) :
             /\ At(direction, i - 1) # At(direction, i)
             /\ HmaCross(data, hma9, i) = (IF At(direction, i) = 1 THEN "UP" ELSE "DOWN")
             /\ cands[i].reason[1] \in {"SuperTrend Buy Flip", "SuperTrend Sell Flip"}
        /\ \E k \in 1..Len(Signals) :
             /\ At(direction, SignalIndex(k) - 1) = At(direction, SignalIndex(k))
             /\ Signals[k].reason[1] = "HMA Trend Entry"

MomentumCalled == LoopRan /\ config.strategy = "MOMENTUM"

\* the indices i - momentumLookback .. i - 1
LookbackWindow(i, momentumLookback) == (i - momentumLookback)..(i - 1)

\* C25: in the MOMENTUM strategy the candidate at index i is LONG exactly when
\* close[i] is greater than every high (so the maximum high) at the indices
\* i - momentumLookback .. i - 1, and otherwise SHORT exactly when close[i] is
\* less than every low (so the minimum low) of the same window; candle i is
\* not in the window; every signal has the direction of its candle's candidate.
C25_DonchianBreakout ==
  MomentumCalled =>
    LET cands == Candidates(data, config)
    IN /\ \A i \in startIndex..(Len(data) - 1) :
            LET window == LookbackWindow(i, params.momentumLookback)
                above == \A j \in window : At(data, i).close > At(data, j).high
                below == \A j \in window : At(data, i).close < At(data, j).low
            IN /\ i \notin window
               /\ (cands[i].isSignal /\ cands[i].type = "LONG") <=> above
               /\ (cands[i].isSignal /\ cands[i].type = "SHORT") <=> (~above /\ below)
       /\ \A k \in 1..Len(Signals) :
            /\ cands[SignalIndex(k)].isSignal
            /\ Signals[k].type = cands[SignalIndex(k)].type

\* a LONG signal on a candle that closes above the window's highs but not
\* above its own high, a SHORT signal of the same call, and a candle that
\* closes exactly at the window's highest high and has no candidate
C25_Witness ==
  /\ MomentumCalled
  /\ LET cands == Candidates(data, config)
     IN /\ \E k \in 1..Len(Signals) :
             LET i == SignalIndex(k)
             IN /\ Signals[k].type = "LONG"
                /\ \A j \in LookbackWindow(i, params.momentumLookback) :
                     At(data, i).close > At(data, j).high
                /\ At(data, i).close <= At(data, i).high
        /\ \E k \in 1..Len(Signals) : Signals[k].type = "SHORT"
        /\ \E i \in startIndex..(Len(data) - 1) :
             /\ ~cands[i].isSignal
             /\ \A j \in LookbackWindow(i, params.momentumLookback) :
                  At(data, i).close >= At(data, j).high

\* the SuperTrend of the latest call: superTrend, direction and the two bands
SuperTrendOf(data_, cfg) ==
  calculateSuperTrend(data_, calculateATR(data_, 14),
    StFactor1000(Sensitivity(cfg)), StPeriod(Sensitivity(cfg)))

\* C26 as claimed: from index i-1 to i the upper band never rises unless the
\* opposite (lower) band is crossed by the close, and the lower band never
\* falls unless the opposite (upper) band is crossed; the plotted value at i
\* is the lower band when direction[i] = 1 and the upper band when it is -1.
\* A band counts as crossed when the previous or the current close is beyond
\* its previous value.
C26_StickyUnlessOppositeCrossed ==
  LoopRan =>
    LET st == SuperTrendOf(data, config)
    IN \A i \in (params.stPeriod + 1)..(Len(data) - 1) :
         LET prevUpper == At(st.upperBand, i - 1)
             prevLower == At(st.lowerBand, i - 1)
             prevClose == At(data, i - 1).close * FP
             close == At(data, i).close * FP
         IN /\ At(st.upperBand, i) > prevUpper =>
                 (prevClose < prevLower \/ close < prevLower)
            /\ At(st.lowerBand, i) < prevLower =>
                 (prevClose > prevUpper \/ close > prevUpper)
            /\ At(st.superTrend, i) =
                 IF At(st.direction, i) = 1 THEN At(st.lowerBand, i)
                                            ELSE At(st.upperBand, i)

\* C26 as amended: from index i-1 to i, for i from stPeriod on, the upper band
\* rises only when the previous close is above the previous upper band and
\* the lower band falls only when the previous close is below the previous
\* lower band (a band gives way only once the close has crossed that band
\* itself); from stPeriod on the plotted value at i is the lower band when
\* direction[i] = 1 and the upper band when it is -1, and before stPeriod it
\* is the candle's close.
C26_StickyUnlessSameBandCrossed ==
  LoopRan =>
    LET st == SuperTrendOf(data, config)
    IN /\ \A i \in params.stPeriod..(Len(data) - 1) :
            LET prevUpper == At(st.upperBand, i - 1)
                prevLower == At(st.lowerBand, i - 1)
                prevClose == At(data, i - 1).close * FP
            IN /\ At(st.upperBand, i) > prevUpper => prevClose > prevUpper
               /\ At(st.lowerBand, i) < prevLower => prevClose < prevLower
               /\ At(st.superTrend, i) =
                    IF At(st.direction, i) = 1 THEN At(st.lowerBand, i)
                                               ELSE At(st.upperBand, i)
       /\ \A i \in 0..(params.stPeriod - 1) :
            At(st.superTrend, i) = At(data, i).close * FP

\* past the warm-up, an upper band rose after a close above it, a lower band
\* stayed where it was although its candle's basic band was lower, and the
\* plotted value was the upper band at a candle in direction -1
C26_Witness ==
  /\ LoopRan
  /\ LET st == SuperTrendOf(data, config)
         atr == calculateATR(data, 14)
         Inner == (params.stPeriod + 1)..(Len(data) - 1)
     IN /\ \E i \in Inner :
             /\ At(st.upperBand, i) > At(st.upperBand, i - 1)
             /\ At(data, i - 1).close * FP > At(st.upperBand, i - 1)
        /\ \E i \in Inner :
             /\ At(st.lowerBand, i) = At(st.lowerBand, i - 1)
             /\ ((At(data, i).high + At(data, i).low) * FP) \div 2
                  - ((params.stFactor1000 * At(atr, i)) \div 1000)
                  < At(st.lowerBand, i - 1)
        /\ \E i \in Inner :
             /\ At(st.direction, i) = -1
             /\ At(st.superTrend, i) = At(st.upperBand, i)
             /\ At(st.upperBand, i) # At(st.lowerBand, i)

\* C27: every RSI value calculateRSIArray(data, 14) produces at an index from
\* the period on lies in [0, 100], and the average loss behind it is never
\* negative, whatever the candle array (down-moves among the first 14 changes
\* included).
C27_RsiRange ==
  (Called /\ Len(data) >= 200) =>
    LET rsiArray == calculateRSIArray(data, 14)
        avgLoss == RSIAvgLoss(data, 14)
    IN \A i \in 14..(Len(data) - 1) :
         /\ IsFin(At(rsiArray, i))
         /\ At(rsiArray, i)[1] >= 0 /\ At(rsiArray, i)[1] <= 100 * FP
         /\ At(avgLoss, i) >= 0

\* the sum of the base score and the four adjustments of a signal of
\* direction type on candle i, before the clamp
UnclampedScore(type, i, rsiArray, ema21, ema50, adxArray) ==
  60 + RsiAdj(type, At(rsiArray, i)) + VolAdj(data, i)
     + TrendAdjSides(type, At(data, i).close * FP, At(ema21, i), At(ema50, i))
     + AdxAdj(At(adxArray, i))

\* C28: the lower clamp is never reached: every emitted signal has a
\* confidence of at least 50 (the base 60 less the RSI penalty of 10), and the
\* confidence is 98 exactly when the sum before the clamp is at least 98.
C28_LowerClampUnreachable ==
  (LoopRan /\ Signals # <<>>) =>
    LET rsiArray == calculateRSIArray(data, 14)
        ema21 == calculateEMA(data, 21)
        ema50 == calculateEMA(data, 50)
        adxArray == calculateADX(data, 14)
    IN \A k \in 1..Len(Signals) :
         LET sum == UnclampedScore(Signals[k].type, SignalIndex(k),
                                   rsiArray, ema21, ema50, adxArray)
         IN /\ Signals[k].confidence >= 50
            /\ Signals[k].confidence = 98 <=> sum >= 98

\* a signal with the RSI penalty and no bonus: the sum is 50, inside the
\* clamp, and the signal carries it
C28_Witness ==
  /\ LoopRan
  /\ LET rsiArray == calculateRSIArray(data, 14)
         ema21 == calculateEMA(data, 21)
         ema50 == calculateEMA(data, 50)
         adxArray == calculateADX(data, 14)
     IN \E k \in 1..Len(Signals) :
          /\ RsiAdj(Signals[k].type, At(rsiArray, SignalIndex(k))) = -10
          /\ UnclampedScore(Signals[k].type, SignalIndex(k),
                            rsiArray, ema21, ema50, adxArray) = 50
          /\ Signals[k].confidence = 50

C30_TicksOfTheDisplayedSymbol ==
  /\ \A k \in 1..Len(appliedTicks) :
       /\ appliedTicks[k].priceOf = appliedTicks[k].dataOf
       /\ appliedTicks[k].priceOf = appliedTicks[k].symbol
  /\ \A k \in 1..(Len(data) - 1) : data[k].time < data[k + 1].time
  /\ Len(data) <= MaxCandles


============================================================================
